---- MODULE Spec2Model ----
(***************************************************************************)
(* State-machine model of the client/server synchronisation core of       *)
(* shooter3 (src/bin/server.rs, src/bin/client.rs, src/controller.rs,     *)
(* src/predict.rs, src/frame.rs).                                          *)
(*                                                                         *)
(* Every bevy system is one action that models the whole system run.      *)
(* Within one frame the systems of a process run once each, in any order  *)
(* the schedule allows (only the .after() constraints of main() order     *)
(* them); Commands (spawn, despawn, insert_resource) are deferred and     *)
(* applied when the stage ends.  The transport is an unreliable channel:  *)
(* a message in flight may be delivered in any order or dropped.          *)
(***************************************************************************)
EXTENDS Integers, Sequences, FiniteSets, TLC

\* ------------------------------------------------------------- bounds
\* client ids the model knows (the domain of the per-client variables)
MaxPlayers == 2
\* SpecInput: clients that connect, last serial a client sends, server frames
InputPlayers == 1
InputMaxSerial == 2
InputMaxTick == 3
\* SpecTick: clients that connect, server frames
TickPlayers == 2
TickMaxTick == 4
\* SpecSync: last serial a client sends, server frames
SyncMaxSerial == 1
SyncMaxTick == 3
\* SpecClient: last serial the client numbers (its frames), ticks the server sends
ClientMaxSerial == 2
ClientMaxTick == 2
\* SpecDiscard: largest key of the log
\* SpecLobby
LobbyMaxTick == 3
LobbyMaxSerial == 1
\* SpecGarbage
GarbageMaxSerial == 1
GarbageMaxTick == 2
\* SpecFault
FaultMaxSerial == 1
FaultMaxTick == 2
\* SpecReconcile
ReconcileMaxSerial == 2
ReconcileMaxPlace == 2
\* SpecDiscard
QueueMaxSerial == 1
QueueMaxTick == 2

\* SpecProjectile: clients that connect, server frames, frames a fireball lasts,
\* entities the server spawns, BasicAttack messages of one frame, collision
\* events of one frame
ProjPlayers == 1
ProjMaxTick == 6
ProjectileDuration == 2
ProjMaxEntity == 3
ProjMaxBatch == 2
ProjMaxCollisions == 2
\* SpecTables: server entities the messages name, messages of one frame, client
\* entities spawned, last serial the client numbers (its frames)
TablesMaxEntity == 3
TablesMaxBatch == 2
TablesMaxSpawns == 3
TablesMaxSerial == 1

DiscardMaxKey == 5
\* SpecMove
MoveMaxSerial == 2
\* SpecExtrapolate: largest base_tick, largest speed per axis, largest translation
ExtrapMaxBase == 2
ExtrapMaxSpeed == 1
ExtrapMaxTranslation == 1
\* values of a tick word: the ticks are u32 in the source, the model keeps words
\* narrow enough for products of ticks to stay within the checker's integers
TickModulus == 65536

PlayerIds == 1..MaxPlayers
InputIds == 1..InputPlayers
TickIds == 1..TickPlayers

\* ------------------------------------------------------------ helpers
\* HashMap::insert / HashMap::remove on a map kept as a function.
MapInsert(m, k, v) == [x \in DOMAIN m \cup {k} |-> IF x = k THEN v ELSE m[x]]
MapRemove(m, k) == [x \in DOMAIN m \ {k} |-> m[x]]

Min(S) == CHOOSE x \in S : \A y \in S : x <= y
Max(S) == CHOOSE x \in S : \A y \in S : x >= y

RECURSIVE SortedSeq(_)
\* the elements of a finite set of integers in ascending order
SortedSeq(S) == IF S = {} THEN <<>> ELSE <<Min(S)>> \o SortedSeq(S \ {Min(S)})

Last(s) == s[Len(s)]

\* serials of a queue of input commands, front to back
Serials(q) == [i \in 1..Len(q) |-> q[i].serial]

\* the client process the model follows
Me == Min(PlayerIds)

StrictlyIncreasing(s) == \A i \in 1..Len(s) : \A j \in 1..Len(s) : i < j => s[i] < s[j]

VARIABLES
    \* ---- transport (renet), server side
    conn,            \* per client id: "new", "connected" or "gone"
    server_events,   \* EventReader<ServerEvent>: events not yet read
    net_input,       \* ClientChannel::Input messages sent and still in flight, per client
    recv_input,      \* ClientChannel::Input messages receive_message will return
    \* ---- server resources and world
    lobby,           \* ServerLobby.players : client id -> Entity
    next_entity,     \* next Entity the server's allocator hands out
    commands,        \* the server's deferred Commands of the running stage
    world,           \* live server entities: Entity -> components
    tick,            \* NetworkTick
    server_ran,      \* server systems that already ran in the current frame
    sent,            \* per client id: NetworkFrames passed to send_message in this frame
    sent_ticks,      \* history: ticks of all NetworkFrames sent to each client, in send order
    \* ---- client input source
    serial,          \* FpsControllerSerial, per client process
    \* ---- the client process of client id Me
    recv_messages,   \* ServerChannel::ServerMessages messages receive_message will return
    net_frame,       \* ServerChannel::NetworkFrame messages in flight to the client
    recv_frame,      \* ServerChannel::NetworkFrame messages receive_message will return
    most_recent_tick,   \* Option<MostRecentTick>: None or [from_server, predicted]
    network_mapping,    \* NetworkMapping : server Entity -> client Entity
    client_next_entity, \* next Entity the client's allocator hands out
    player,          \* components of the ControlledPlayer entity, NoPlayer before it is spawned
    attach_log,      \* whether the ControlledPlayer entity carries an FpsControllerLog
    input_events,    \* Events<FpsControllerInput>: the two buffers [a, b]
    input_reader,    \* client_send_input's EventReader: events read so far
    client_commands, \* the client's deferred Commands of the running stage
    client_ran,      \* client systems that already ran in the current frame
    applied_ticks,   \* history: ticks of the NetworkFrames the client applied, in order
    \* ---- FpsControllerLog::discard taken alone (SpecDiscard)
    log_before,      \* keys of FpsControllerLog.pos before the call
    log_arg,         \* the serial the log is discarded up to
    log_after,       \* keys after the call, NoLog before it
    \* ---- VelocityExtrapolate::apply taken alone (SpecExtrapolate)
    ex_in,           \* the call: [velocity, base_tick, tick, base_translation]
    ex_out,          \* the translation returned, <<>> before the call
    \* ---- ServerChannel::ServerMessages (reliable, ordered)
    out_messages,    \* per client id: messages the server sent that have not arrived yet
    \* ---- the client's picture of the players
    client_lobby,    \* ClientLobby.players : client id -> PlayerInfo
    client_world,    \* live client entities of the other players: Entity -> components
    \* ---- the server's projectiles
    objects,         \* live server entities with Projectile or CubeMarker: Entity -> components
    collision_events,   \* EventReader<CollisionEvent>: events not yet read
    recv_command,    \* ClientChannel::Command messages receive_message will return
    \* ---- failures
    panicked,        \* the panics so far: [process, at]; a process that panicked is dead
    renet_error,     \* Events<RenetError> of the client holds an event
    \* ---- functions called repeatedly on their own result
    log_trail,       \* discard steps on one log, in order: [fn, arg, before, after]
    \* ---- friction() and accelerate() taken alone
    fr_call,         \* the call of friction: its arguments and its result, NoCall if none
    acc_run          \* repeated calls of accelerate: arguments, velocity, calls so far

vars == <<conn, server_events, net_input, recv_input, lobby, next_entity,
          commands, world, tick, server_ran, sent, sent_ticks, serial,
          recv_messages, net_frame, recv_frame, most_recent_tick, network_mapping,
          client_next_entity, player, attach_log, input_events, input_reader,
          client_commands, client_ran, applied_ticks, log_before, log_arg, log_after,
          ex_in, ex_out, out_messages, client_lobby, client_world, panicked, renet_error,
          log_trail, fr_call, acc_run, objects, collision_events, recv_command>>

clientVars == <<recv_messages, net_frame, recv_frame, most_recent_tick, network_mapping,
                client_next_entity, player, attach_log, input_events, input_reader,
                client_commands, client_ran, applied_ticks>>
logVars == <<log_before, log_arg, log_after>>
exVars == <<ex_in, ex_out>>
\* the variables only the specifications of single functions use
msgVars == <<out_messages>>
mirrorVars == <<client_lobby, client_world>>
faultVars == <<panicked, renet_error>>
callVars == <<log_trail, fr_call, acc_run>>
projVars == <<objects, collision_events, recv_command>>
moreVars == <<exVars, msgVars, mirrorVars, faultVars, callVars, projVars>>

netVars == <<conn, server_events, net_input, recv_input>>
serverVars == <<lobby, next_entity, commands, world, tick, server_ran, sent, sent_ticks>>

\* ------------------------------------------------------- wire schema
\* PlayerInput as the server reads it: serial and the four movement keys.  fly is
\* the fly key, which only the client's controller reads.
KeySets == { [right |-> FALSE, left |-> FALSE, up |-> FALSE, down |-> FALSE, fly |-> FALSE,
              sprint |-> FALSE, jump |-> FALSE],
             [right |-> TRUE,  left |-> FALSE, up |-> FALSE, down |-> FALSE, fly |-> FALSE,
              sprint |-> FALSE, jump |-> FALSE] }

\* the fly key just pressed
FlyKey == { [right |-> FALSE, left |-> FALSE, up |-> FALSE, down |-> FALSE, fly |-> TRUE,
             sprint |-> FALSE, jump |-> FALSE] }

\* the right key held down together with the sprint key
SprintKey == { [right |-> TRUE, left |-> FALSE, up |-> FALSE, down |-> FALSE, fly |-> FALSE,
                sprint |-> TRUE, jump |-> FALSE] }

\* the right and up keys held down together
ClimbKey == { [right |-> TRUE, left |-> FALSE, up |-> TRUE, down |-> FALSE, fly |-> FALSE,
               sprint |-> FALSE, jump |-> FALSE] }

\* the jump key held down
JumpKey == { [right |-> FALSE, left |-> FALSE, up |-> FALSE, down |-> FALSE, fly |-> FALSE,
              sprint |-> FALSE, jump |-> TRUE] }

\* the one key set held down where the keys do not matter
RightKey == {k \in KeySets : k.right}

PlayerInput(s, k) ==
    [serial |-> s, right |-> k.right, left |-> k.left, up |-> k.up, down |-> k.down]

\* NetworkFrame: tick, last_player_input and the entity array.
\* Vec3 in the ground plane: <<x, z>>.  Translations are in tenths of a metre.
Origin == <<0, 0>>

\* NetworkFrame: tick, last_player_input and the parallel arrays of
\* NetworkedEntities.  The arrays of translations and velocities start at rest
\* at the origin.
NetworkFrame(t, lpi, es) ==
    [tick |-> t, last_player_input |-> lpi, entities |-> es,
     translations |-> [i \in 1..Len(es) |-> Origin],
     velocities |-> [i \in 1..Len(es) |-> Origin],
     with_rotation |-> [entities |-> <<>>, translations |-> <<>>, velocities |-> <<>>,
                        rotations |-> <<>>]]

\* bytes that bincode::deserialize rejects
Garbage == [garbage |-> TRUE]

Malformed(msgs) == \E i \in 1..Len(msgs) : msgs[i] = Garbage

\* the process has panicked
Dead(process) == \E x \in panicked : x.process = process

\* Result::unwrap on the result of bincode::deserialize
Unwrap(process, system, failed) ==
    IF failed THEN panicked \cup {[process |-> process, at |-> system]} ELSE panicked

ServerSystems == {"server_update_system", "server_network_sync", "move_players_system"}
ProjectileSystems == {"update_projectiles_system", "despawn_projectile_system"}

\* -------------------------------------------------------------- server
B2I(b) == IF b THEN 1 ELSE 0

\* (right - left, down - up): the direction move_players_system derives
Direction(input) == <<B2I(input.right) - B2I(input.left), B2I(input.down) - B2I(input.up)>>

\* components of a freshly spawned player entity; consumed is the history of
\* the serials move_players_system has popped from its queue
NewPlayer(id) ==
    [id |-> id, queue |-> <<>>, last_applied_serial |-> 0,
     velocity |-> <<0, 0>>, impulse |-> <<0, 0>>, consumed |-> {}]

\* ServerMessages
PlayerCreate(id, e) == [kind |-> "PlayerCreate", id |-> id, entity |-> e]
PlayerRemove(id) == [kind |-> "PlayerRemove", id |-> id]
SpawnProjectile(e) == [kind |-> "SpawnProjectile", entity |-> e]
DespawnProjectile(e) == [kind |-> "DespawnProjectile", entity |-> e]

\* send_message: the message is queued for a client the transport is connected to
SendMessage(out, c, m) ==
    IF conn[c] = "connected" THEN [out EXCEPT ![c] = Append(@, m)] ELSE out

\* a broadcast that leaves out the client the message is about
BroadcastExcept(out, m) ==
    [c \in PlayerIds |->
        IF conn[c] = "connected" /\ c # m.id THEN Append(out[c], m) ELSE out[c]]

\* broadcast_message: to every client the transport is connected to
Broadcast(out, m) ==
    [c \in PlayerIds |-> IF conn[c] = "connected" THEN Append(out[c], m) ELSE out[c]]

RECURSIVE SendPlayers(_, _, _)
\* "Initialize other players for this new client": one PlayerCreate for every
\* entity of the players query, which sees the world as the stage found it
SendPlayers(es, c, out) ==
    IF es = <<>> THEN out
    ELSE SendPlayers(Tail(es), c, SendMessage(out, c, PlayerCreate(world[Head(es)].id, Head(es))))

\* a handler that leaves the player's entity alone
DespawnNothing(cmds, lb, id) == cmds

\* if let Some(player_entity) = lobby.players.remove(id) { despawn }
DespawnPlayer(cmds, lb, id) ==
    IF id \in DOMAIN lb THEN Append(cmds, [op |-> "despawn", entity |-> lb[id]]) ELSE cmds

RECURSIVE HandleServerEvents(_, _, _, _, _)
\* the ServerEvent loop of server_update_system
HandleServerEvents(evs, lb, cmds, ne, out) ==
    IF evs = <<>> THEN [lobby |-> lb, commands |-> cmds, next_entity |-> ne, out |-> out]
    ELSE LET ev == Head(evs) IN
        IF ev.kind = "ClientConnected"
        THEN HandleServerEvents(Tail(evs), MapInsert(lb, ev.id, ne),
                 Append(cmds, [op |-> "spawn", entity |-> ne, id |-> ev.id]), ne + 1,
                 Broadcast(SendPlayers(SortedSeq(DOMAIN world), ev.id, out),
                           PlayerCreate(ev.id, ne)))
        ELSE HandleServerEvents(Tail(evs), MapRemove(lb, ev.id),
                 DespawnPlayer(cmds, lb, ev.id), ne,
                 Broadcast(out, PlayerRemove(ev.id)))

\* an Input loop that pushes to the front of the queue
PushInputsFront(e, rec, lb) ==
    LET from == {c \in PlayerIds : conn[c] = "connected" /\ c \in DOMAIN lb /\ lb[c] = e}
    IN IF from = {} THEN rec
       ELSE [rec EXCEPT !.queue = recv_input[CHOOSE c \in from : TRUE] \o @]

\* the Input loop of server_update_system for one entity: every message of a
\* connected client whose lobby entry is this (live) entity is pushed to the back
PushInputs(e, rec, lb) ==
    LET from == {c \in PlayerIds : conn[c] = "connected" /\ c \in DOMAIN lb /\ lb[c] = e}
    IN IF from = {} THEN rec
       ELSE [rec EXCEPT !.queue = @ \o recv_input[CHOOSE c \in from : TRUE]]

\* a client puts bytes on the Input channel that are no PlayerInput (one such
\* message at a time)
ClientSendsGarbage(p) ==
    /\ server_ran = {}
    /\ conn[p] = "connected"
    /\ ~Malformed(net_input[p])
    /\ ~Malformed(recv_input[p])
    /\ net_input' = [net_input EXCEPT ![p] = Append(@, Garbage)]
    /\ UNCHANGED <<conn, server_events, recv_input, serverVars, serial, clientVars, logVars,
                   moreVars>>

\* direction * 0.7: the distance between the player and its fireball, in tenths
FireballOffset == 7

\* ---- projectiles
\* PlayerCommand::BasicAttack { cast_at }
BasicAttack(cast_at) == [kind |-> "BasicAttack", cast_at |-> cast_at]

Sign(x) == IF x > 0 THEN 1 ELSE IF x < 0 THEN -1 ELSE 0

\* (cast_at - player_transform.translation).normalize_or_zero(), for a cast_at
\* on an axis through the player or at the player itself
AttackDirection(cast_at, translation) ==
    <<Sign(cast_at[1] - translation[1]), Sign(cast_at[2] - translation[2])>>

\* Timer::tick by the time of one frame; Timer::finished
TimerTick(timer) ==
    [timer EXCEPT !.elapsed = IF @ + 1 <= timer.duration THEN @ + 1 ELSE timer.duration]
Finished(timer) == timer.elapsed >= timer.duration

\* the entity spawn_fireball queues: a Projectile whose duration timer has
\* ProjectileDuration frames to run, flying in the direction of the attack
NewFireball(translation, direction) ==
    [kind |-> "projectile", translation |-> translation, velocity |-> direction,
     timer |-> [elapsed |-> 0, duration |-> ProjectileDuration]]

\* a BasicAttack arm that does not ask whether the client's player entity is live
AttackAllowedAlways(c, lb) == TRUE

\* if let Some(player_entity) = lobby.players.get(&client_id)
\*     if let Ok(..) = players.get(*player_entity)
AttackAllowed(c, lb) == c \in DOMAIN lb /\ lb[c] \in DOMAIN world

RECURSIVE HandleAttacks(_, _, _, _)
\* the Command loop for one client; st: the queued Commands, the entity
\* allocator and the messages sent.  The player stands where it was spawned;
\* the fireball starts FireballOffset tenths away from it.
HandleAttacks(msgs, c, lb, st) ==
    IF msgs = <<>> THEN st
    ELSE HandleAttacks(Tail(msgs), c, lb,
            IF AttackAllowed(c, lb)
            THEN LET direction == AttackDirection(Head(msgs).cast_at, Origin)
                     translation == <<FireballOffset * direction[1],
                                      FireballOffset * direction[2]>>
                 IN [commands |-> Append(st.commands,
                                    [op |-> "spawn_fireball", entity |-> st.next_entity,
                                     translation |-> translation, direction |-> direction]),
                     next_entity |-> st.next_entity + 1,
                     out |-> Broadcast(st.out, SpawnProjectile(st.next_entity))]
            ELSE st)

RECURSIVE HandleCommands(_, _, _)
\* for client_id in server.clients_id(): the Command loop
HandleCommands(cs, lb, st) ==
    IF cs = <<>> THEN st
    ELSE HandleCommands(Tail(cs), lb, HandleAttacks(recv_command[Head(cs)], Head(cs), lb, st))

\* the messages the Command and Input loops read in this run
ServerReceived == {c \in PlayerIds : conn[c] = "connected" /\ Malformed(recv_input[c])}

\* a message that does not deserialize panics at the unwrap (lines 180, 218);
\* whatever the run did before is lost with the process
server_update_system ==
    /\ "server_update_system" \notin server_ran
    /\ ~Dead("server")
    /\ panicked' = Unwrap("server", "server_update_system", ServerReceived # {})
    /\ IF Dead("server")'
       THEN UNCHANGED <<lobby, out_messages, commands, next_entity, world, server_events,
                        recv_input, recv_command, server_ran>>
       ELSE /\ LET r == HandleServerEvents(server_events, lobby, commands, next_entity,
                                            out_messages)
                    a == HandleCommands(SortedSeq({c \in PlayerIds : conn[c] = "connected"}),
                                        r.lobby,
                                        [commands |-> r.commands, next_entity |-> r.next_entity,
                                         out |-> r.out])
                IN
                /\ lobby' = r.lobby
                /\ out_messages' = a.out
                /\ commands' = a.commands
                /\ next_entity' = a.next_entity
                /\ world' = [e \in DOMAIN world |->
                                PushInputs(e, world[e], r.lobby)]
            /\ server_events' = <<>>
            /\ recv_command' = [c \in PlayerIds |->
                                  IF conn[c] = "connected" THEN <<>> ELSE recv_command[c]]
            /\ recv_input' = [c \in PlayerIds |->
                                IF conn[c] = "connected" THEN <<>> ELSE recv_input[c]]
            /\ server_ran' = server_ran \cup {"server_update_system"}
    /\ UNCHANGED <<conn, net_input, tick, sent, sent_ticks, serial, clientVars, logVars,
                   exVars, mirrorVars, renet_error, callVars, objects, collision_events>>

RECURSIVE ApplyInputs(_)
\* the while-let loop of move_players_system for one entity
ApplyInputs(rec) ==
    IF rec.queue = <<>> THEN rec
    ELSE LET input == Head(rec.queue) IN
        ApplyInputs([rec EXCEPT !.queue = Tail(rec.queue),
                                !.impulse = Direction(input),
                                !.velocity = Direction(input),
                                !.last_applied_serial = input.serial,
                                !.consumed = @ \cup {input.serial}])

move_players_system ==
    /\ "move_players_system" \notin server_ran
    /\ ~Dead("server")
    /\ world' = [e \in DOMAIN world |-> ApplyInputs(world[e])]
    /\ server_ran' = server_ran \cup {"move_players_system"}
    /\ UNCHANGED <<netVars, lobby, next_entity, commands, tick, sent, sent_ticks, serial, clientVars, logVars, moreVars>>

RECURSIVE DespawnEach(_, _)
\* commands.entity(entity).despawn() for each entity of es
DespawnEach(es, cmds) ==
    IF es = <<>> THEN cmds
    ELSE DespawnEach(Tail(es), Append(cmds, [op |-> "despawn", entity |-> Head(es)]))

\* every Projectile's duration timer is ticked; the entities whose timer has
\* finished are despawned
update_projectiles_system ==
    /\ "update_projectiles_system" \notin server_ran
    /\ ~Dead("server")
    /\ objects' = [e \in DOMAIN objects |->
                        IF objects[e].kind = "projectile"
                        THEN [objects[e] EXCEPT !.timer = TimerTick(@)]
                        ELSE objects[e]]
    /\ commands' = DespawnEach(SortedSeq({e \in DOMAIN objects' :
                                            /\ objects'[e].kind = "projectile"
                                            /\ Finished(objects'[e].timer)}), commands)
    /\ server_ran' = server_ran \cup {"update_projectiles_system"}
    /\ UNCHANGED <<netVars, lobby, next_entity, world, tick, sent, sent_ticks, serial,
                   clientVars, logVars, exVars, msgVars, mirrorVars, faultVars, callVars,
                   collision_events, recv_command>>

\* if let Ok(Some(_)) = projectile_query.get(entity): the entity is live and
\* carries Projectile
Hits(e) == {x \in {e} : x \in DOMAIN objects /\ objects[x].kind = "projectile"}

RECURSIVE DespawnCollided(_, _)
\* the loop over the CollisionEvent::Started events
DespawnCollided(evs, cmds) ==
    IF evs = <<>> THEN cmds
    ELSE DespawnCollided(Tail(evs),
            DespawnEach(SortedSeq(Hits(Head(evs)[2])),
                        DespawnEach(SortedSeq(Hits(Head(evs)[1])), cmds)))

despawn_projectile_system ==
    /\ "despawn_projectile_system" \notin server_ran
    /\ ~Dead("server")
    /\ commands' = DespawnCollided(collision_events, commands)
    /\ collision_events' = <<>>
    /\ server_ran' = server_ran \cup {"despawn_projectile_system"}
    /\ UNCHANGED <<netVars, lobby, next_entity, world, tick, sent, sent_ticks, serial,
                   clientVars, logVars, exVars, msgVars, mirrorVars, faultVars, callVars,
                   objects, recv_command>>

\* the physics step between two frames reports that two live entities have
\* started to touch
Collide(e1, e2) ==
    /\ server_ran = {}
    /\ ~Dead("server")
    /\ e1 # e2
    /\ {e1, e2} \subseteq DOMAIN world \cup DOMAIN objects
    /\ Len(collision_events) < ProjMaxCollisions
    /\ collision_events' = Append(collision_events, <<e1, e2>>)
    /\ UNCHANGED <<netVars, serverVars, serial, clientVars, logVars, exVars, msgVars,
                   mirrorVars, faultVars, callVars, objects, recv_command>>

\* a BasicAttack of client p arrives on the Command channel.  The attacks stop
\* when the allocator or the frames of the model are used up.
ClientAttacks(p, cast_at) ==
    /\ server_ran = {}
    /\ conn[p] = "connected"
    /\ Len(recv_command[p]) < ProjMaxBatch
    /\ next_entity + Len(recv_command[p]) <= ProjMaxEntity
    /\ tick + ProjectileDuration + 1 < ProjMaxTick
    /\ recv_command' = [recv_command EXCEPT ![p] = Append(@, BasicAttack(cast_at))]
    /\ UNCHANGED <<netVars, serverVars, serial, clientVars, logVars, exVars, msgVars,
                   mirrorVars, faultVars, callVars, objects, collision_events>>

RECURSIVE SendFramesOneSerial(_, _, _)
\* SendFrames without line 305: last_player_input is not set per recipient
SendFramesOneSerial(es, frame, out) ==
    IF es = <<>> THEN out
    ELSE LET p == world[Head(es)] IN
        SendFramesOneSerial(Tail(es), frame, [out EXCEPT ![p.id] = Append(@, frame)])

RECURSIVE SendFrames(_, _, _)
\* the send loop of server_network_sync over player_query
SendFrames(es, frame, out) ==
    IF es = <<>> THEN out
    ELSE LET p == world[Head(es)] IN
        SendFrames(Tail(es), frame,
            [out EXCEPT ![p.id] = Append(@, [frame EXCEPT !.last_player_input = p.last_applied_serial])])

\* a tick that is incremented only when the timer fired
NextTickWhenFired(t, fired) == IF fired THEN t + 1 ELSE t

\* a tick that is never incremented
NextTickStuck(t, fired) == t

\* what tick.0 becomes in one run of server_network_sync
NextTick(t, fired) == t + 1

\* the entities of the projectiles query ("projectile") and of the cubes
\* query ("cube": entities with CubeMarker, which only add_cube_system spawns,
\* a system main does not add)
ObjectsOf(kind) == {e \in DOMAIN objects : objects[e].kind = kind}

\* a frame that lists the projectiles without their translations and velocities
SnapshotOfPlayers(t, lpi, es) ==
    [NetworkFrame(t, lpi, es \o SortedSeq(ObjectsOf("projectile"))) EXCEPT
        !.translations = [i \in 1..Len(es) |-> Origin],
        !.velocities = [i \in 1..Len(es) |-> world[es[i]].velocity]]

\* the frame server_network_sync collects from the queries: each player with
\* its PlayerVelocity, then each projectile with its Velocity, and the cubes in
\* the with_rotation arrays.  (A rigid body's translation is advanced by the
\* physics plugin, which is outside the model: an entity stays where it was
\* spawned.)
Snapshot(t, lpi, es) ==
    LET ps == SortedSeq(ObjectsOf("projectile"))
        cs == SortedSeq(ObjectsOf("cube"))
    IN [tick |-> t, last_player_input |-> lpi,
        entities |-> es \o ps,
        translations |-> [i \in 1..Len(es) |-> Origin]
                            \o [i \in 1..Len(ps) |-> objects[ps[i]].translation],
        velocities |-> [i \in 1..Len(es) |-> world[es[i]].velocity]
                            \o [i \in 1..Len(ps) |-> objects[ps[i]].velocity],
        with_rotation |->
            [entities |-> cs,
             translations |-> [i \in 1..Len(cs) |-> objects[cs[i]].translation],
             velocities |-> [i \in 1..Len(cs) |-> objects[cs[i]].velocity],
             rotations |-> [i \in 1..Len(cs) |-> objects[cs[i]].rotation]]]

\* fired: timer.0.just_finished() in this run
server_network_sync(fired, maxTick) ==
    /\ "server_network_sync" \notin server_ran
    /\ ~Dead("server")
    /\ tick < maxTick
    /\ LET es == SortedSeq(DOMAIN world)
           frame == Snapshot(tick, 0, es)
       IN /\ sent' = IF fired THEN SendFrames(es, frame, sent) ELSE sent
          /\ sent_ticks' =
                [p \in PlayerIds |->
                    sent_ticks[p] \o [i \in 1..(Len(sent'[p]) - Len(sent[p])) |->
                                         sent'[p][Len(sent[p]) + i].tick]]
    /\ tick' = NextTick(tick, fired)
    /\ server_ran' = server_ran \cup {"server_network_sync"}
    /\ UNCHANGED <<netVars, lobby, next_entity, commands, world, serial, clientVars, logVars, moreVars>>

RECURSIVE ApplyCommands(_, _)
\* the deferred Commands, applied in order when the stage ends
ApplyCommands(cmds, w) ==
    IF cmds = <<>> THEN w
    ELSE LET c == Head(cmds) IN
        ApplyCommands(Tail(cmds),
            IF c.op = "spawn" THEN MapInsert(w, c.entity, NewPlayer(c.id))
            ELSE IF c.op = "spawn_fireball" THEN w
            ELSE MapRemove(w, c.entity))

RECURSIVE ApplyObjectCommands(_, _)
\* the same Commands, for the entities with Projectile; despawning an entity
\* that is already gone only logs a warning
ApplyObjectCommands(cmds, objs) ==
    IF cmds = <<>> THEN objs
    ELSE LET c == Head(cmds) IN
        ApplyObjectCommands(Tail(cmds),
            IF c.op = "spawn_fireball"
            THEN MapInsert(objs, c.entity, NewFireball(c.translation, c.direction))
            ELSE IF c.op = "despawn" THEN MapRemove(objs, c.entity)
            ELSE objs)

RECURSIVE BroadcastEach(_, _)
\* projectile_on_removal_system (PostUpdate): one DespawnProjectile for every
\* entity of RemovedComponents<Projectile>
BroadcastEach(removed, out) ==
    IF removed = <<>> THEN out
    ELSE BroadcastEach(Tail(removed), Broadcast(out, DespawnProjectile(Head(removed))))

\* the Update stage ends: Commands are applied, then renet's PostUpdate system
\* hands the queued messages to the socket.  wire: the NetworkFrames for Me are
\* followed on their way (the channel is unreliable: with wire = FALSE it loses
\* them all).
EndFrame(wire, systems) ==
    /\ server_ran = systems
    /\ ~Dead("server")
    /\ world' = ApplyCommands(commands, world)
    /\ objects' = ApplyObjectCommands(commands, objects)
    /\ out_messages' =
            BroadcastEach(SortedSeq(ObjectsOf("projectile") \ DOMAIN objects'), out_messages)
    /\ commands' = <<>>
    /\ server_ran' = {}
    /\ sent' = [p \in PlayerIds |-> <<>>]
    /\ net_frame' = IF wire /\ conn[Me] = "connected"
                    THEN net_frame \cup {sent[Me][i] : i \in 1..Len(sent[Me])}
                    ELSE net_frame
    /\ UNCHANGED <<netVars, lobby, next_entity, tick, sent_ticks, serial, recv_messages,
                   recv_frame, most_recent_tick, network_mapping, client_next_entity, player,
                   attach_log, input_events, input_reader, client_commands, client_ran,
                   applied_ticks, logVars, exVars, mirrorVars, faultVars, callVars,
                   collision_events, recv_command>>

\* the frame of the specifications without projectiles: while no projectile
\* exists update_projectiles_system and despawn_projectile_system change nothing
ServerEndFrame(wire) == EndFrame(wire, ServerSystems)

\* ----------------------------------------------------------- transport
\* renet polls the socket before the Update stage: connections, disconnections
\* and received messages show up between two frames.
ClientConnects(p) ==
    /\ server_ran = {}
    /\ client_ran = {}
    /\ conn[p] = "new"
    /\ conn' = [conn EXCEPT ![p] = "connected"]
    /\ server_events' = Append(server_events, [kind |-> "ClientConnected", id |-> p])
    /\ UNCHANGED <<net_input, recv_input, serverVars, serial, clientVars, logVars, moreVars>>

ClientDisconnects(p) ==
    /\ server_ran = {}
    /\ client_ran = {}
    /\ conn[p] = "connected"
    /\ conn' = [conn EXCEPT ![p] = "gone"]
    /\ server_events' = Append(server_events, [kind |-> "ClientDisconnected", id |-> p])
    /\ recv_input' = [recv_input EXCEPT ![p] = <<>>]
    /\ net_input' = [net_input EXCEPT ![p] = <<>>]
    /\ out_messages' = [out_messages EXCEPT ![p] = <<>>]
    /\ UNCHANGED <<serverVars, serial, clientVars, logVars, exVars, mirrorVars,
                   faultVars, callVars, projVars>>

\* s without its i-th element
RemoveAt(s, i) == [j \in 1..(Len(s) - 1) |-> IF j < i THEN s[j] ELSE s[j + 1]]

\* any message in flight may be the next to arrive (reordering); one that never
\* arrives is lost
DeliverInput(p) ==
    /\ server_ran = {}
    /\ conn[p] = "connected"
    /\ \E i \in 1..Len(net_input[p]) :
        /\ net_input' = [net_input EXCEPT ![p] = RemoveAt(@, i)]
        /\ recv_input' = [recv_input EXCEPT ![p] = Append(@, net_input[p][i])]
    /\ UNCHANGED <<conn, server_events, serverVars, serial, clientVars, logVars, moreVars>>

\* a connected client's frame: fps_controller_input numbers one command and
\* client_send_input puts it on the Input channel.  window bounds the messages
\* in flight (1: the channel delivers in order).
ClientInput(p, maxSerial, window, keys) ==
    /\ server_ran = {}
    /\ conn[p] = "connected"
    /\ serial[p] <= maxSerial
    /\ Len(net_input[p]) < window
    /\ \E k \in keys :
        net_input' = [net_input EXCEPT ![p] = Append(@, PlayerInput(serial[p], k))]
    /\ serial' = [serial EXCEPT ![p] = @ + 1]
    /\ UNCHANGED <<conn, server_events, recv_input, serverVars, clientVars, logVars, moreVars>>

\* -------------------------------------------------------------- client
NoPlayer == <<>>
NoCall == <<>>
None == <<>>

client_connected == conn[Me] = "connected"

\* FpsControllerConfig::default().enable_input; no system changes it
enable_input == TRUE

ClientSystems == {"fps_controller_input", "fps_controller_move", "client_send_input",
                  "client_sync_players", "predict_entities"}

\* Vec3 <<x, y, z>> of a velocity, in mm/s
Milli == 1000
Zero == <<0, 0, 0>>

\* a velocity of a frame (<<x, z>> in m/s) as the Vec3 written to Velocity.linvel
Linvel(v) == <<v[1] * Milli, 0, v[2] * Milli>>

\* components of the entity client_sync_players spawns for its own PlayerCreate.
\* pos holds the keys of FpsControllerLog.pos.  client_sync_players inserts
\* FpsController and FpsControllerInputQueue but no FpsControllerLog, while the
\* queries of fps_controller_move and of client_sync_players only match an entity
\* that carries one (with FpsControllerLocgicBundle it does).  attach_log, fixed
\* for a run, tells which of the two holds; has_log is the entity's copy of it.
NewControlledPlayer(ce, hasLog) ==
    [entity |-> ce, queue |-> <<>>, last_applied_serial |-> 0, apply_single |-> FALSE,
     has_log |-> hasLog, pos |-> {}, move_mode |-> "Ground", ground_tick |-> 0,
     logpos |-> <<>>, translation |-> Origin, velocity |-> Zero, linvel |-> Zero]

\* logpos holds the values of FpsControllerLog.pos (pos is its domain);
\* translation is the entity's Transform.translation, velocity is
\* FpsController.velocity and linvel is the entity's Velocity.linvel.

\* input.movement: the axes (right - left, up - down, forward - back); the
\* forward and back keys are not among the keys of the model
Movement(k) == <<B2I(k.right) - B2I(k.left), B2I(k.up) - B2I(k.down), 0>>

\* FpsControllerInput: serial, the movement axes read from the keys, sprint,
\* jump and fly; pitch and yaw stay 0 (the mouse is not moved)
FpsControllerInput(s, k) ==
    [serial |-> s, movement |-> Movement(k), sprint |-> k.sprint, jump |-> k.jump,
     fly |-> k.fly]

fps_controller_input(keys, maxSerial) ==
    /\ "fps_controller_input" \notin client_ran
    /\ ~Dead("client")
    /\ enable_input
    /\ serial[Me] <= maxSerial
    /\ \E k \in keys :
        LET input == FpsControllerInput(serial[Me], k) IN
        /\ player' = IF player = NoPlayer THEN player
                      ELSE [player EXCEPT ![1].queue = Append(@, input)]
        /\ input_events' = [input_events EXCEPT !.b = Append(@, input)]
    /\ serial' = [serial EXCEPT ![Me] = @ + 1]
    /\ client_ran' = client_ran \cup {"fps_controller_input"}
    /\ UNCHANGED <<netVars, serverVars, recv_messages, net_frame, recv_frame,
                   most_recent_tick, network_mapping, client_next_entity, attach_log,
                   input_reader, client_commands, applied_ticks, logVars, moreVars>>

\* dt of a frame at 60 frames per second, and of a slow frame, in ms
FrameMs == 16
SlowFrameMs == 100

\* u8::MAX, where ground_tick.saturating_add(1) stops
U8Max == 255

\* ------------------------------------------------ controller arithmetic
\* f32 values are fixed-point integers: speeds in mm/s, dt in ms, rates in 1/s;
\* a product or quotient that is no whole number is cut towards zero.
Trunc(a, b) == IF a >= 0 THEN a \div b ELSE 0 - ((0 - a) \div b)
MinOf(a, b) == IF a <= b THEN a ELSE b
MaxOf(a, b) == IF a >= b THEN a ELSE b

RECURSIVE Bisect(_, _, _)
\* the largest r in lo..hi with r * r <= n
Bisect(n, lo, hi) ==
    IF lo = hi THEN lo
    ELSE LET mid == (lo + hi + 1) \div 2 IN
         IF mid * mid <= n THEN Bisect(n, mid, hi) ELSE Bisect(n, lo, mid - 1)

\* the largest root whose square is a 32-bit integer
MaxRoot == 46340

Dot(a, b) == a[1] * b[1] + a[2] * b[2] + a[3] * b[3]
Plus(a, b) == <<a[1] + b[1], a[2] + b[2], a[3] + b[3]>>

\* Vec3::length
Length(v) == Bisect(Dot(v, v), 0, MaxRoot)

\* Vec3::xz, kept as a Vec3
Lateral(v) == <<v[1], 0, v[3]>>

\* impl Default for FpsController
FpsControllerDefault ==
    [fly_speed |-> 10 * Milli, fast_fly_speed |-> 30 * Milli, gravity |-> 23 * Milli,
     walk_speed |-> 10 * Milli, run_speed |-> 30 * Milli, forward_speed |-> 30 * Milli,
     side_speed |-> 30 * Milli, air_speed_cap |-> 2 * Milli, air_acceleration |-> 20,
     max_air_speed |-> 8 * Milli, accel |-> 10, friction |-> 10, friction_cutoff |-> 100,
     fly_friction |-> 500, stop_speed |-> 1 * Milli, jump_speed |-> 8500]

\* a unit vector is written in fifths: <<3, 0, 4>> is (0.6, 0, 0.8)
DirUnit == 5

\* a friction() that lets the scale factor go below zero
frictionUnclamped(lateral_speed, fric, stop_speed, dt, velocity) ==
    LET control == MaxOf(lateral_speed, stop_speed)
        drop == (control * fric * dt) \div Milli
    IN <<Trunc(velocity[1] * (lateral_speed - drop), lateral_speed), velocity[2],
         Trunc(velocity[3] * (lateral_speed - drop), lateral_speed)>>

\* fn friction: new_speed = max((lateral_speed - drop) / lateral_speed, 0.0)
\* scales x and z
friction(lateral_speed, fric, stop_speed, dt, velocity) ==
    LET control == MaxOf(lateral_speed, stop_speed)
        drop == (control * fric * dt) \div Milli
        new_speed == MaxOf(lateral_speed - drop, 0)
    IN <<Trunc(velocity[1] * new_speed, lateral_speed), velocity[2],
         Trunc(velocity[3] * new_speed, lateral_speed)>>

\* fn accelerate: adds to x and z, at most what is missing to wish_speed along
\* wish_dir
accelerate(wish_dir, wish_speed, accel, dt, velocity) ==
    LET velocity_projection == Trunc(Dot(velocity, wish_dir), DirUnit)
        add_speed == wish_speed - velocity_projection
        accel_speed == MinOf((accel * wish_speed * dt) \div Milli, add_speed)
    IN IF add_speed <= 0 THEN velocity
       ELSE <<velocity[1] + Trunc(wish_dir[1] * accel_speed, DirUnit), velocity[2],
              velocity[3] + Trunc(wish_dir[3] * accel_speed, DirUnit)>>

\* wish_direction before it is normalised, with pitch = yaw = 0: right is X and
\* forward is -Z
Wish(movement) ==
    <<movement[1] * FpsControllerDefault.side_speed, 0,
      0 - movement[3] * FpsControllerDefault.forward_speed>>

\* wish_direction /= wish_speed, for a movement along one axis (or none)
WishDirection(movement) == <<movement[1] * DirUnit, 0, 0 - movement[3] * DirUnit>>

\* a wish_speed that is not held to max_speed
WishSpeedUnclamped(input) == Length(Wish(input.movement))

\* wish_speed = min(wish_direction.length(), max_speed), where max_speed is
\* run_speed with sprint and walk_speed without
WishSpeed(input) ==
    MinOf(Length(Wish(input.movement)),
          IF input.sprint THEN FpsControllerDefault.run_speed
          ELSE FpsControllerDefault.walk_speed)

\* the Ground arm for one command: FpsController.velocity and Velocity.linvel
\* after it
Ground(rec, input, grounded, dt) ==
    LET c == FpsControllerDefault
        start_velocity == rec.velocity
        lateral_speed == Length(Lateral(start_velocity))
        wish_direction == WishDirection(input.movement)
        wish_speed == WishSpeed(input)
        slowed == IF rec.ground_tick >= 1
                  THEN LET f == IF lateral_speed > c.friction_cutoff
                                THEN friction(lateral_speed, c.friction, c.stop_speed, dt,
                                              start_velocity)
                                ELSE <<0, start_velocity[2], 0>>
                       IN <<f[1], 0, f[3]>>
                  ELSE start_velocity
        walked == accelerate(wish_direction, wish_speed, c.accel, dt, slowed)
        jump_start == <<start_velocity[1], c.jump_speed, start_velocity[3]>>
        jumped == <<walked[1], c.jump_speed - (c.gravity * dt) \div Milli, walked[3]>>
        flown == accelerate(wish_direction, MinOf(wish_speed, c.air_speed_cap),
                            c.air_acceleration, dt, start_velocity)
        fallen == <<flown[1], flown[2] - (c.gravity * dt) \div Milli, flown[3]>>
        air_speed == Length(Lateral(fallen))
        capped == IF air_speed > c.max_air_speed
                  THEN <<Trunc(fallen[1] * c.max_air_speed, air_speed), fallen[2],
                         Trunc(fallen[3] * c.max_air_speed, air_speed)>>
                  ELSE fallen
        start == IF grounded /\ input.jump THEN jump_start ELSE start_velocity
        end_velocity == IF ~grounded THEN capped
                        ELSE IF input.jump THEN jumped ELSE walked
        sum == Plus(start, end_velocity)
    IN [velocity |-> end_velocity,
        linvel |-> <<Trunc(sum[1], 2), Trunc(sum[2], 2), Trunc(sum[3], 2)>>]

\* velocity.length_squared() < 1e-6, in (mm/s)^2
SnapSquared == 1

\* the Noclip arm for one command
Noclip(rec, input) ==
    LET c == FpsControllerDefault
        fric == MinOf(MaxOf(c.fly_friction, 0), Milli)
        scaled == [i \in 1..3 |-> Trunc(rec.velocity[i] * (Milli - fric), Milli)]
        decayed == IF Dot(scaled, scaled) < SnapSquared THEN Zero ELSE scaled
        fly_speed == IF input.sprint THEN c.fast_fly_speed ELSE c.fly_speed
        len == Length([i \in 1..3 |-> input.movement[i] * 10 * Milli])
        snapped == [i \in 1..3 |-> Trunc(input.movement[i] * 10 * Milli * fly_speed, len)]
        velocity == IF input.movement = Zero THEN decayed ELSE snapped
    IN [velocity |-> velocity,
        linvel |-> <<velocity[1], velocity[2], 0 - velocity[3]>>]

\* the match on move_mode for one command
Move(rec, input, mode, grounded, dt) ==
    IF mode = "Noclip" THEN Noclip(rec, input) ELSE Ground(rec, input, grounded, dt)

\* a fly that always enters Noclip
ToggleModeSticky(mode, fly) == IF fly THEN "Noclip" ELSE mode

\* the move mode after a command: fly toggles it
ToggleMode(mode, fly) ==
    IF ~fly THEN mode ELSE IF mode = "Noclip" THEN "Ground" ELSE "Noclip"

\* a ground_tick that wraps around like a plain u8 addition in a release build
NextGroundTickWrapping(g, mode, grounded) ==
    IF mode = "Noclip" THEN g
    ELSE IF grounded THEN (g + 1) % (U8Max + 1)
    ELSE 0

\* ground_tick after a command consumed in the given mode; grounded: the capsule
\* cast downwards hit the ground
NextGroundTick(g, mode, grounded) ==
    IF mode = "Noclip" THEN g
    ELSE IF grounded THEN (IF g < U8Max THEN g + 1 ELSE U8Max)
    ELSE 0

\* a loop that stops after its first command whatever apply_single says
MoveInputsOnce(rec, grounded, dt) ==
    IF rec.queue = <<>> THEN rec
    ELSE [rec EXCEPT !.queue = Tail(rec.queue),
                     !.pos = @ \cup {Head(rec.queue).serial},
                     !.last_applied_serial = Head(rec.queue).serial]

\* a loop that probes the ground without looking at the queue
MoveInputsProbing(rec, grounded, dt) ==
    [rec EXCEPT !.ground_tick = NextGroundTick(@, rec.move_mode, grounded)]

RECURSIVE MoveInputs(_, _, _)
\* the while-let loop of fps_controller_move for one entity: each command is
\* logged under its serial (FpsControllerLog::put keeps an existing entry),
\* toggles the move mode if it carries fly, updates the velocities and
\* ground_tick and becomes last_applied_serial
MoveInputs(rec, grounded, dt) ==
    IF rec.queue = <<>> THEN rec
    ELSE LET input == Head(rec.queue)
             mode == ToggleMode(rec.move_mode, input.fly)
             moved == Move(rec, input, mode, grounded, dt)
             next == [rec EXCEPT !.queue = Tail(rec.queue),
                                 !.pos = @ \cup {input.serial},
                                 !.logpos = IF input.serial \in rec.pos THEN @
                                            ELSE MapInsert(@, input.serial, rec.translation),
                                 !.move_mode = mode,
                                 !.velocity = moved.velocity,
                                 !.linvel = moved.linvel,
                                 !.ground_tick = NextGroundTick(@, mode, grounded),
                                 !.last_applied_serial = input.serial]
         IN IF rec.apply_single THEN next ELSE MoveInputs(next, grounded, dt)

\* grounded: what the ground probe finds in this frame (the physics world does
\* not change during the run); dt: time.delta_seconds()
fps_controller_move(grounded, dt) ==
    /\ "fps_controller_move" \notin client_ran
    /\ ~Dead("client")
    /\ "fps_controller_input" \in client_ran
    /\ player' = IF player # NoPlayer /\ player[1].has_log
                  THEN <<MoveInputs(player[1], grounded, dt)>> ELSE player
    /\ client_ran' = client_ran \cup {"fps_controller_move"}
    /\ UNCHANGED <<netVars, serverVars, serial, recv_messages, net_frame, recv_frame,
                   most_recent_tick, network_mapping, client_next_entity, attach_log, input_events,
                   input_reader, client_commands, applied_ticks, logVars, moreVars>>

\* a reader that forgets what it has read
UnreadAll(evs, cursor) == evs.a \o evs.b

\* the events an EventReader that has read `cursor` events still finds
Unread(evs, cursor) == SelectSeq(evs.a \o evs.b, LAMBDA ev : ev.serial >= cursor)

\* runs only while the client is connected (run_if_client_connected)
client_send_input ==
    /\ "client_send_input" \notin client_ran
    /\ ~Dead("client")
    /\ IF client_connected
       THEN /\ net_input' = [net_input EXCEPT ![Me] = @ \o Unread(input_events, input_reader)]
            /\ input_reader' = serial[Me]
       ELSE UNCHANGED <<net_input, input_reader>>
    /\ client_ran' = client_ran \cup {"client_send_input"}
    /\ UNCHANGED <<conn, server_events, recv_input, serverVars, serial, recv_messages,
                   net_frame, recv_frame, most_recent_tick, network_mapping,
                   client_next_entity, player, attach_log, input_events, client_commands,
                   applied_ticks, logVars, moreVars>>

\* ---- VelocityExtrapolate (predict.rs)
\* Translations are fixed-point numbers counted in 1/TicksPerSecond of a world
\* unit, velocities are whole world units per second.
TicksPerSecond == 60

\* u32 subtraction as the release build computes it (wrapping), on words of
\* TickModulus values
Sub32(a, b) == (a - b + TickModulus) % TickModulus

\* apply without its early return
applyUnclamped(ve, t, base_translation) ==
    base_translation + (ve.velocity * TicksPerSecond * Sub32(t, ve.base_tick)) \div TicksPerSecond

\* VelocityExtrapolate::apply(&self, tick, base_translation)
apply(ve, t, base_translation) ==
    IF t <= ve.base_tick THEN base_translation
    ELSE LET ticks == Sub32(t, ve.base_tick)
         IN base_translation + (ve.velocity * TicksPerSecond * ticks) \div TicksPerSecond

\* a translation of a frame counted in 1/TicksPerSecond of its unit, the unit of
\* the translations that VelocityExtrapolate::apply adds up
Sixtieths(tr) == <<tr[1] * TicksPerSecond, tr[2] * TicksPerSecond>>

\* components of the entity spawned for another player: Transform (from the
\* translation of PlayerCreate, the spawn point), TransformFromServer::default()
\* and VelocityExtrapolate::default()
NewAvatar == [object |-> "player", base_tick |-> 0, velocity |-> Origin,
              from_server |-> Origin, translation |-> Origin]

\* components of the entity spawned for SpawnProjectile: the bundle of the
\* object type, TransformFromServer::default() and VelocityExtrapolate::default()
NewProjectile == [NewAvatar EXCEPT !.object = "projectile"]

\* a PlayerRemove arm that forgets the player and leaves its client entity alone
RemovePlayerKeepsEntity(st, id) ==
    IF id \notin DOMAIN st.lobby THEN st
    ELSE [st EXCEPT !.lobby = MapRemove(@, id),
                    !.network_mapping = MapRemove(@, st.lobby[id].server_entity)]

\* the PlayerRemove arm: if the lobby knows the player, its client entity is
\* despawned and the mapping of its server entity removed
RemovePlayer(st, id) ==
    IF id \notin DOMAIN st.lobby THEN st
    ELSE [st EXCEPT !.lobby = MapRemove(@, id),
                    !.commands = Append(@, [op |-> "despawn",
                                            entity |-> st.lobby[id].client_entity]),
                    !.network_mapping = MapRemove(@, st.lobby[id].server_entity)]

\* a client that takes every player for its own
IsControlledAny(id) == TRUE

\* if client_id == id: the entity gets ControlledPlayer and the controller's
\* components, else VelocityExtrapolate
IsControlled(id) == id = Me

\* the DespawnProjectile arm: if let Some(entity) = network_mapping.0.remove(&entity)
\* the client entity is despawned
RemoveProjectile(st, e) ==
    IF e \notin DOMAIN st.network_mapping THEN st
    ELSE [st EXCEPT !.commands = Append(@, [op |-> "despawn",
                                            entity |-> st.network_mapping[e]]),
                    !.network_mapping = MapRemove(@, e)]

RECURSIVE HandleServerMessages(_, _)
\* the ServerMessages loop of client_sync_players; st: network_mapping, lobby,
\* commands and the entity allocator
HandleServerMessages(msgs, st) ==
    IF msgs = <<>> THEN st
    ELSE LET m == Head(msgs) IN
        IF m.kind = "PlayerCreate"
        THEN HandleServerMessages(Tail(msgs),
                [network_mapping |-> MapInsert(st.network_mapping, m.entity, st.next_entity),
                 lobby |-> MapInsert(st.lobby, m.id,
                              [server_entity |-> m.entity, client_entity |-> st.next_entity]),
                 commands |-> Append(st.commands,
                              [op |-> "spawn", entity |-> st.next_entity,
                               controlled |-> IsControlled(m.id)]),
                 next_entity |-> st.next_entity + 1])
        ELSE IF m.kind = "PlayerRemove"
        THEN HandleServerMessages(Tail(msgs), RemovePlayer(st, m.id))
        ELSE IF m.kind = "SpawnProjectile"
        THEN HandleServerMessages(Tail(msgs),
                [st EXCEPT !.network_mapping = MapInsert(@, m.entity, st.next_entity),
                           !.commands = Append(@, [op |-> "spawn_projectile",
                                                   entity |-> st.next_entity]),
                           !.next_entity = @ + 1])
        ELSE HandleServerMessages(Tail(msgs), RemoveProjectile(st, m.entity))

RECURSIVE discardThrough(_, _)
\* a discard that also removes the entry of the serial itself
discardThrough(pos, s) ==
    IF pos = {} THEN pos
    ELSE IF Min(pos) > s THEN pos
    ELSE discardThrough(pos \ {Min(pos)}, s)

RECURSIVE discard(_, _)
\* FpsControllerLog::discard on the keys of pos
discard(pos, s) ==
    IF pos = {} THEN pos
    ELSE IF Min(pos) >= s THEN pos
    ELSE discard(pos \ {Min(pos)}, s)

\* a loop that removes the first entry whatever its key
SyncDiscardLoopFirst(pos, lpi) ==
    IF pos = {} THEN pos ELSE pos \ {Min(pos)}

RECURSIVE SyncDiscardLoop(_, _)
\* the first_entry loop of client_sync_players
SyncDiscardLoop(pos, lpi) ==
    IF pos = {} THEN pos
    ELSE IF Min(pos) >= lpi THEN pos
    ELSE SyncDiscardLoop(pos \ {Min(pos)}, lpi)

\* what client_sync_players does to the log of the controlled entity: the loop
\* runs only if the log holds an entry for last_player_input
SyncDiscard(pos, lpi) == IF lpi \in pos THEN SyncDiscardLoop(pos, lpi) ELSE pos

\* what applying a frame sets the controlled entity's last_applied_serial to
SyncSerial(old, lpi) == lpi

\* delta_len > 0.1, in tenths of a metre
CorrectionThreshold == 1

Minus(a, b) == <<a[1] - b[1], a[2] - b[2]>>
LengthSquared(v) == v[1] * v[1] + v[2] * v[2]

\* velocity.linvel.length() < 0.1: the velocities of a snapshot are multiples of
\* PLAYER_MOVE_SPEED, so only the zero vector is that short
Still(v) == v = Origin

\* if delta_len > 0.1 { if velocity.linvel.length() < 0.1 { correction } }
\* a correction test that does not look at the snapshot's velocity
CorrectsMoving(delta, vel) ==
    LengthSquared(delta) > CorrectionThreshold * CorrectionThreshold

Corrects(delta, vel) ==
    LengthSquared(delta) > CorrectionThreshold * CorrectionThreshold /\ Still(vel)

\* the branch of the controlled player for one entry of a frame: lpi, tr and vel
\* are the frame's last_player_input and the entry's translation and velocity
Reconcile(rec, lpi, tr, vel) ==
    LET kept == SyncDiscard(rec.pos, lpi)
        acked == [rec EXCEPT !.linvel = Linvel(vel),
                             !.last_applied_serial = SyncSerial(@, lpi),
                             !.pos = kept,
                             !.logpos = [k \in kept |-> rec.logpos[k]]]
    IN IF lpi \in rec.pos /\ Corrects(Minus(rec.logpos[lpi], tr), vel)
       THEN [acked EXCEPT !.translation = tr]
       ELSE acked

\* a loop that takes the first entry of a frame for the controlled player's
ApplyEntitiesAnyEntry(es, frame, nm, pl) ==
    IF es = <<>> \/ pl = NoPlayer \/ ~pl[1].has_log THEN pl
    ELSE <<Reconcile(pl[1], frame.last_player_input,
                     frame.translations[1], frame.velocities[1])>>

RECURSIVE ApplyEntities(_, _, _, _)
\* the loop over frame.entities.entities for the controlled player
ApplyEntities(es, frame, nm, pl) ==
    IF es = <<>> THEN pl
    ELSE LET i == Len(frame.entities) - Len(es) + 1 IN
         ApplyEntities(Tail(es), frame, nm,
            IF /\ Head(es) \in DOMAIN nm
               /\ pl # NoPlayer
               /\ pl[1].entity = nm[Head(es)]
               /\ pl[1].has_log
            THEN <<Reconcile(pl[1], frame.last_player_input,
                             frame.translations[i], frame.velocities[i])>>
            ELSE pl)

\* an application that reads the first entry of the arrays whatever the index
RefreshFirst(av, frame, i) ==
    [av EXCEPT !.base_tick = frame.tick,
               !.velocity = frame.velocities[1],
               !.from_server = Sixtieths(frame.translations[1]),
               !.translation = Sixtieths(frame.translations[1])]

\* entry i of a frame applied to an entity the transform_query and the
\* extrapolate query match: *ent_transform = transform,
\* *transform_from_server = TransformFromServer(transform), base_tick and velocity
Refresh(av, frame, i) ==
    [av EXCEPT !.base_tick = frame.tick,
               !.velocity = frame.velocities[i],
               !.from_server = Sixtieths(frame.translations[i]),
               !.translation = Sixtieths(frame.translations[i])]

\* the entries of a frame that are mapped to client entity ce
EntriesOf(es, nm, ce) == {i \in 1..Len(es) : es[i] \in DOMAIN nm /\ nm[es[i]] = ce}

\* a loop that gives up on a frame as soon as one of its entries has no mapping
ApplyExtrapolateAllOrNothing(es, frame, nm, w) ==
    [ce \in DOMAIN w |->
        IF /\ \A i \in 1..Len(es) : es[i] \in DOMAIN nm
           /\ EntriesOf(es, nm, ce) # {}
        THEN Refresh(w[ce], frame, Max(EntriesOf(es, nm, ce)))
        ELSE w[ce]]

\* the same loop for the entities of the other players (the extrapolate query):
\* an entry whose EntityId has no mapping, or whose client entity is not live,
\* is passed over
ApplyExtrapolate(es, frame, nm, w) ==
    [ce \in DOMAIN w |->
        IF EntriesOf(es, nm, ce) # {}
        THEN Refresh(w[ce], frame, Max(EntriesOf(es, nm, ce)))
        ELSE w[ce]]

\* whether a frame passes the match on most_recent_tick; mrt is the resource as
\* the system got it when it started, with the updates of this run
Accepts(mrt, frame) == mrt = None \/ mrt[1].from_server < frame.tick

RECURSIVE SyncFrames(_, _, _)
\* the NetworkFrame loop of client_sync_players
SyncFrames(frames, nm, st) ==
    IF frames = <<>> THEN st
    ELSE LET f == Head(frames) IN
        IF ~Accepts(st.mrt, f) THEN SyncFrames(Tail(frames), nm, st)
        ELSE SyncFrames(Tail(frames), nm,
                [mrt |-> IF st.mrt = None THEN None
                         ELSE <<[from_server |-> f.tick, predicted |-> f.tick]>>,
                 commands |-> IF st.mrt = None
                              THEN Append(st.commands, [op |-> "insert_resource", tick |-> f.tick])
                              ELSE st.commands,
                 player |-> ApplyEntities(f.entities, f, nm, st.player),
                 world |-> ApplyExtrapolate(f.entities, f, nm, st.world),
                 applied |-> Append(st.applied, f.tick)])

\* runs only while the client is connected (run_if_client_connected)
client_sync_players ==
    /\ "client_sync_players" \notin client_ran
    /\ ~Dead("client")
    /\ panicked' = Unwrap("client", "client_sync_players",
                          client_connected /\ (Malformed(recv_messages) \/ Malformed(recv_frame)))
    /\ IF client_connected /\ ~Dead("client")'
       THEN LET r == HandleServerMessages(recv_messages,
                         [network_mapping |-> network_mapping, lobby |-> client_lobby,
                          commands |-> client_commands, next_entity |-> client_next_entity])
                st == SyncFrames(recv_frame, r.network_mapping,
                                 [mrt |-> most_recent_tick, commands |-> r.commands,
                                  player |-> player, world |-> client_world,
                                  applied |-> applied_ticks])
            IN /\ network_mapping' = r.network_mapping
               /\ client_lobby' = r.lobby
               /\ client_world' = st.world
               /\ client_next_entity' = r.next_entity
               /\ most_recent_tick' = st.mrt
               /\ client_commands' = st.commands
               /\ player' = st.player
               /\ applied_ticks' = st.applied
               /\ recv_messages' = <<>>
               /\ recv_frame' = <<>>
       ELSE UNCHANGED <<network_mapping, client_next_entity, most_recent_tick,
                        client_commands, player, applied_ticks, recv_messages, recv_frame,
                        mirrorVars>>
    /\ client_ran' = IF Dead("client")' THEN client_ran
                     ELSE client_ran \cup {"client_sync_players"}
    /\ UNCHANGED <<netVars, serverVars, serial, net_frame, attach_log, input_events,
                   input_reader, logVars, exVars, msgVars, renet_error, callVars, projVars>>

\* "If any error is found we just panic": runs in every frame that starts with
\* a RenetError event
panic_on_error_system ==
    /\ ~Dead("client")
    /\ renet_error
    /\ panicked' = panicked \cup {[process |-> "client", at |-> "panic_on_error_system"]}
    /\ UNCHANGED <<netVars, serverVars, serial, clientVars, logVars, exVars, msgVars,
                   mirrorVars, renet_error, callVars, projVars>>

\* transform.translation = extrapolate.apply(tick.predicted,
\* transform_from_server.0.translation) for one entity of the query
Extrapolated(av, predicted) ==
    [av EXCEPT !.translation =
        [i \in 1..2 |-> apply([velocity |-> av.velocity[i], base_tick |-> av.base_tick],
                              predicted, av.from_server[i])]]

\* a counter that predict_entities leaves alone
NextPredictedStuck(p) == p

\* tick.predicted += 1
NextPredicted(p) == p + 1

\* runs only while the client is connected, after client_sync_players
predict_entities ==
    /\ "predict_entities" \notin client_ran
    /\ ~Dead("client")
    /\ "client_sync_players" \in client_ran
    /\ most_recent_tick' =
            IF client_connected /\ most_recent_tick # None
            THEN [most_recent_tick EXCEPT ![1].predicted = NextPredicted(@)]
            ELSE most_recent_tick
    /\ client_world' =
            IF client_connected /\ most_recent_tick # None
            THEN [ce \in DOMAIN client_world |->
                    Extrapolated(client_world[ce], most_recent_tick[1].predicted)]
            ELSE client_world
    /\ client_ran' = client_ran \cup {"predict_entities"}
    /\ UNCHANGED <<netVars, serverVars, serial, recv_messages, net_frame, recv_frame,
                   network_mapping, client_next_entity, player, attach_log, input_events, input_reader,
                   client_commands, applied_ticks, logVars, exVars, msgVars, client_lobby,
                   faultVars, callVars, projVars>>

RECURSIVE ApplyClientCommands(_, _)
\* the client's deferred Commands, applied in order when the stage ends
ApplyClientCommands(cmds, st) ==
    IF cmds = <<>> THEN st
    ELSE LET c == Head(cmds) IN
        ApplyClientCommands(Tail(cmds),
            IF c.op = "insert_resource"
            THEN [st EXCEPT !.mrt = <<[from_server |-> c.tick, predicted |-> c.tick]>>]
            ELSE IF c.op = "spawn"
            THEN IF c.controlled
                 THEN [st EXCEPT !.player = <<NewControlledPlayer(c.entity, attach_log)>>]
                 ELSE [st EXCEPT !.world = MapInsert(@, c.entity, NewAvatar)]
            ELSE IF c.op = "spawn_projectile"
            THEN [st EXCEPT !.world = MapInsert(@, c.entity, NewProjectile)]
            ELSE [st EXCEPT !.world = MapRemove(@, c.entity),
                            !.player = IF @ # NoPlayer /\ @[1].entity = c.entity
                                       THEN NoPlayer ELSE @])

\* the stage ends: Commands are applied; Events::update drops the older buffer
\* before the next frame
ClientEndFrame ==
    /\ client_ran = ClientSystems
    /\ ~Dead("client")
    /\ ~renet_error
    /\ LET st == ApplyClientCommands(client_commands,
                                     [mrt |-> most_recent_tick, player |-> player,
                                      world |-> client_world])
       IN /\ most_recent_tick' = st.mrt
          /\ player' = st.player
          /\ client_world' = st.world
    /\ client_commands' = <<>>
    /\ input_events' = [a |-> input_events.b, b |-> <<>>]
    /\ client_ran' = {}
    /\ UNCHANGED <<netVars, serverVars, serial, recv_messages, net_frame, recv_frame,
                   network_mapping, client_next_entity, attach_log, input_reader,
                   applied_ticks, logVars, exVars, msgVars, client_lobby,
                   faultVars, callVars, projVars>>

\* ---- the server as the client sees it (SpecClient)
\* the server handles the client's connect: it adds the lobby entry and
\* broadcasts PlayerCreate, which reaches the client
ServerCreatesPlayer ==
    /\ client_connected
    /\ Me \notin DOMAIN lobby
    /\ lobby' = MapInsert(lobby, Me, next_entity)
    /\ next_entity' = next_entity + 1
    /\ recv_messages' = Append(recv_messages, PlayerCreate(Me, next_entity))
    /\ UNCHANGED <<netVars, commands, world, tick, server_ran, sent, sent_ticks, serial,
                   net_frame, recv_frame, most_recent_tick, network_mapping,
                   client_next_entity, player, attach_log, input_events, input_reader, client_commands,
                   client_ran, applied_ticks, logVars, moreVars>>

\* the server broadcasts: a later tick than any before, the client's entity in
\* the entity array, and as last_player_input 0 or a serial the client has sent
ServerSendsFrame(maxTick) ==
    /\ Me \in DOMAIN lobby
    /\ \E t \in tick..(maxTick - 1) :
       \E lpi \in {0} \cup {net_input[Me][i].serial : i \in 1..Len(net_input[Me])} :
        /\ tick' = t + 1
        /\ net_frame' = net_frame \cup {NetworkFrame(t, lpi, <<lobby[Me]>>)}
    /\ UNCHANGED <<netVars, lobby, next_entity, commands, world, server_ran, sent,
                   sent_ticks, serial, recv_messages, recv_frame, most_recent_tick,
                   network_mapping, client_next_entity, player, attach_log, input_events, input_reader,
                   client_commands, client_ran, applied_ticks, logVars, moreVars>>

\* the reliable channel delivers the server's messages in the order they were
\* sent, once the frame that queued them has passed them to the socket
DeliverMessage ==
    /\ server_ran = {}
    /\ client_ran = {}
    /\ client_connected
    /\ out_messages[Me] # <<>>
    /\ recv_messages' = Append(recv_messages, Head(out_messages[Me]))
    /\ out_messages' = [out_messages EXCEPT ![Me] = Tail(@)]
    /\ UNCHANGED <<netVars, serverVars, serial, net_frame, recv_frame, most_recent_tick,
                   network_mapping, client_next_entity, player, attach_log, input_events,
                   input_reader, client_commands, client_ran, applied_ticks, logVars,
                   exVars, mirrorVars,
                   faultVars, callVars, projVars>>

\* the connection of Me fails (socket error, timeout): renet reports a
\* RenetError to the client and ClientDisconnected to the server
TransportFails ==
    /\ server_ran = {}
    /\ client_ran = {}
    /\ client_connected
    /\ conn' = [conn EXCEPT ![Me] = "gone"]
    /\ server_events' = Append(server_events, [kind |-> "ClientDisconnected", id |-> Me])
    /\ recv_input' = [recv_input EXCEPT ![Me] = <<>>]
    /\ net_input' = [net_input EXCEPT ![Me] = <<>>]
    /\ out_messages' = [out_messages EXCEPT ![Me] = <<>>]
    /\ renet_error' = TRUE
    /\ UNCHANGED <<serverVars, serial, clientVars, logVars, exVars, mirrorVars, panicked, callVars, projVars>>

\* bytes that are no NetworkFrame reach the client on the NetworkFrame channel
GarbageFrame ==
    /\ client_ran = {}
    /\ client_connected
    /\ ~Malformed(recv_frame)
    /\ recv_frame' = Append(recv_frame, Garbage)
    /\ UNCHANGED <<netVars, serverVars, serial, recv_messages, net_frame, most_recent_tick,
                   network_mapping, client_next_entity, player, attach_log, input_events,
                   input_reader, client_commands, client_ran, applied_ticks, logVars, moreVars>>

\* any frame in flight may be the next to arrive
DeliverFrame ==
    /\ client_ran = {}
    /\ client_connected
    /\ \E f \in net_frame :
        /\ net_frame' = net_frame \ {f}
        /\ recv_frame' = Append(recv_frame, f)
    /\ UNCHANGED <<netVars, serverVars, serial, recv_messages, most_recent_tick,
                   network_mapping, client_next_entity, player, attach_log, input_events, input_reader,
                   client_commands, client_ran, applied_ticks, logVars, moreVars>>

\* ---- FpsControllerLog::discard taken alone (SpecDiscard)
NoLog == <<>>

CallDiscard ==
    /\ log_after = NoLog
    /\ log_after' = <<discard(log_before, log_arg)>>
    /\ UNCHANGED <<netVars, serverVars, serial, clientVars, log_before, log_arg, moreVars>>

\* the same log and serial given to the discard step of client_sync_players
CallSyncDiscard ==
    /\ log_after = NoLog
    /\ log_after' = <<SyncDiscard(log_before, log_arg)>>
    /\ UNCHANGED <<netVars, serverVars, serial, clientVars, log_before, log_arg, moreVars>>

\* one more discard step on the log the steps so far have left: fn is "discard"
\* (FpsControllerLog::discard) or "sync" (the loop of client_sync_players, which
\* is reached only if the log holds an entry for last_player_input)
DiscardStep(fn, maxSteps) ==
    /\ Len(log_trail) < maxSteps
    /\ \E s \in 0..(DiscardMaxKey + 1) :
        LET before == IF log_trail = <<>> THEN log_before ELSE Last(log_trail).after IN
        /\ fn = "sync" => s \in before
        /\ log_trail' = Append(log_trail,
                [fn |-> fn, arg |-> s, before |-> before,
                 after |-> IF fn = "discard" THEN discard(before, s)
                           ELSE SyncDiscardLoop(before, s)])
    /\ UNCHANGED <<netVars, serverVars, serial, clientVars, logVars, exVars, msgVars,
                   mirrorVars, faultVars, fr_call, acc_run, projVars>>

\* ---- friction() taken alone (SpecFriction)
CallFriction ==
    /\ fr_call # NoCall
    /\ fr_call.result = <<>>
    /\ fr_call' = [fr_call EXCEPT !.result =
                      <<friction(fr_call.lateral_speed, fr_call.friction,
                                 fr_call.stop_speed, fr_call.dt, fr_call.velocity)>>]
    /\ UNCHANGED <<netVars, serverVars, serial, clientVars, logVars, exVars, msgVars,
                   mirrorVars, faultVars, log_trail, acc_run, projVars>>

\* ---- accelerate() taken alone, called again and again (SpecAccelerate)
\* calls counts the calls up to maxCalls
CallAccelerate(maxCalls) ==
    /\ acc_run # NoCall
    /\ acc_run' = [acc_run EXCEPT
                      !.velocity = accelerate(acc_run.wish_dir, acc_run.wish_speed,
                                              acc_run.accel, acc_run.dt, @),
                      !.calls = MinOf(@ + 1, maxCalls)]
    /\ UNCHANGED <<netVars, serverVars, serial, clientVars, logVars, exVars, msgVars,
                   mirrorVars, faultVars, log_trail, fr_call, projVars>>

\* ---- VelocityExtrapolate::apply taken alone (SpecExtrapolate)
CallApply ==
    /\ ex_out = <<>>
    /\ ex_out' = << apply([velocity |-> ex_in.velocity, base_tick |-> ex_in.base_tick],
                          ex_in.tick, ex_in.base_translation) >>
    /\ UNCHANGED <<netVars, serverVars, serial, clientVars, logVars, ex_in,
                   msgVars, mirrorVars, faultVars, callVars, projVars>>

\* ------------------------------------------------------- specification
InitClient(logs) ==
    /\ recv_messages = <<>>
    /\ net_frame = {}
    /\ recv_frame = <<>>
    /\ most_recent_tick = None
    /\ network_mapping = <<>>
    /\ client_next_entity = 1
    /\ player = NoPlayer
    /\ attach_log \in logs
    /\ input_events = [a |-> <<>>, b |-> <<>>]
    /\ input_reader = 0
    /\ client_commands = <<>>
    /\ client_ran = {}
    /\ applied_ticks = <<>>

InitLog ==
    /\ log_before = {}
    /\ log_arg = 0
    /\ log_after = NoLog

InitEx ==
    /\ ex_in = [velocity |-> 0, base_tick |-> 0, tick |-> 0, base_translation |-> 0]
    /\ ex_out = <<>>

InitCalls ==
    /\ log_trail = <<>>
    /\ fr_call = NoCall
    /\ acc_run = NoCall
    /\ objects = <<>>
    /\ collision_events = <<>>
    /\ recv_command = [p \in PlayerIds |-> <<>>]

InitNet ==
    /\ conn = [p \in PlayerIds |-> "new"]
    /\ server_events = <<>>
    /\ net_input = [p \in PlayerIds |-> <<>>]
    /\ recv_input = [p \in PlayerIds |-> <<>>]
    /\ out_messages = [p \in PlayerIds |-> <<>>]
    /\ client_lobby = <<>>
    /\ client_world = <<>>
    /\ panicked = {}
    /\ renet_error = FALSE

InitServer ==
    /\ lobby = <<>>
    /\ next_entity = 1
    /\ commands = <<>>
    /\ world = <<>>
    /\ tick = 0
    /\ server_ran = {}
    /\ sent = [p \in PlayerIds |-> <<>>]
    /\ sent_ticks = [p \in PlayerIds |-> <<>>]
    /\ serial = [p \in PlayerIds |-> 0]

\* client_sync_players as written attaches no FpsControllerLog
Init ==
    /\ InitCalls
    /\ InitNet
    /\ InitServer
    /\ InitClient({FALSE})
    /\ InitLog
    /\ InitEx

\* SpecInput: the server's input path.  The clients of InputIds connect and send
\* commands, which the transport reorders or loses.
NextInput ==
    \/ \E p \in InputIds : ClientConnects(p)
    \/ \E p \in InputIds : ClientDisconnects(p)
    \/ \E p \in InputIds : ClientInput(p, InputMaxSerial, InputMaxSerial + 1, KeySets)
    \/ \E p \in InputIds : DeliverInput(p)
    \/ server_update_system
    \/ move_players_system
    \/ \E fired \in BOOLEAN : server_network_sync(fired, InputMaxTick)
    \/ ServerEndFrame(FALSE)

SpecInput == Init /\ [][NextInput]_vars

\* SpecSync: the server's broadcast.  Every client connects and disconnects; the
\* Input channel happens to deliver in order.
NextSync ==
    \/ \E p \in PlayerIds : ClientConnects(p)
    \/ \E p \in PlayerIds : ClientDisconnects(p)
    \/ \E p \in PlayerIds : ClientInput(p, SyncMaxSerial, 1, RightKey)
    \/ \E p \in PlayerIds : DeliverInput(p)
    \/ server_update_system
    \/ move_players_system
    \/ \E fired \in BOOLEAN : server_network_sync(fired, SyncMaxTick)
    \/ ServerEndFrame(FALSE)

SpecSync == Init /\ [][NextSync]_vars

\* SpecQueue: the server's input queues with every client sending.  The Input
\* channel reorders and loses messages; the server sends no frame before
\* QueueMaxTick runs of its systems.
NextQueue ==
    \/ \E p \in PlayerIds : ClientConnects(p)
    \/ \E p \in PlayerIds : ClientDisconnects(p)
    \/ \E p \in PlayerIds : ClientInput(p, QueueMaxSerial, QueueMaxSerial + 1, RightKey)
    \/ \E p \in PlayerIds : DeliverInput(p)
    \/ server_update_system
    \/ move_players_system
    \/ \E fired \in BOOLEAN : server_network_sync(fired, QueueMaxTick)
    \/ ServerEndFrame(FALSE)

SpecQueue == Init /\ [][NextQueue]_vars

\* SpecTick: the server's tick and broadcast alone.  The clients of TickIds
\* connect and disconnect and send no input.
NextTickOnly ==
    \/ \E p \in TickIds : ClientConnects(p)
    \/ \E p \in TickIds : ClientDisconnects(p)
    \/ server_update_system
    \/ move_players_system
    \/ \E fired \in BOOLEAN : server_network_sync(fired, TickMaxTick)
    \/ ServerEndFrame(FALSE)

SpecTick == Init /\ [][NextTickOnly]_vars

\* SpecClient: the client process of Me, with the server and the transport as the
\* client sees them.
NextClient ==
    \/ ClientConnects(Me)
    \/ ServerCreatesPlayer
    \/ ServerSendsFrame(ClientMaxTick)
    \/ DeliverFrame
    \/ fps_controller_input(RightKey, ClientMaxSerial)
    \/ \E grounded \in BOOLEAN : fps_controller_move(grounded, FrameMs)
    \/ client_send_input
    \/ client_sync_players
    \/ predict_entities
    \/ ClientEndFrame

InitClientSide ==
    /\ InitCalls
    /\ InitNet
    /\ InitServer
    /\ InitClient(BOOLEAN)
    /\ InitLog
    /\ InitEx

SpecClient == InitClientSide /\ [][NextClient]_vars

\* SpecClientFair: the client process as client.rs wires it (no
\* FpsControllerLog), every frame of which runs each of its systems and ends.
ClientFrame ==
    \/ fps_controller_input(RightKey, ClientMaxSerial)
    \/ \E grounded \in BOOLEAN : fps_controller_move(grounded, FrameMs)
    \/ client_send_input
    \/ client_sync_players
    \/ predict_entities
    \/ ClientEndFrame

SpecClientFair == Init /\ [][NextClient]_vars /\ WF_vars(ClientFrame)

\* SpecLobby: the server and the client process of Me together.  Every client
\* connects, the others disconnect; the broadcast timer fires in every server
\* frame; the server's messages and frames reach Me.
NextLobby ==
    \/ \E p \in PlayerIds : ClientConnects(p)
    \/ \E p \in PlayerIds \ {Me} : ClientDisconnects(p)
    \/ server_update_system
    \/ move_players_system
    \/ server_network_sync(TRUE, LobbyMaxTick)
    \/ ServerEndFrame(TRUE)
    \/ DeliverMessage
    \/ DeliverFrame
    \/ fps_controller_input(RightKey, LobbyMaxSerial)
    \/ \E grounded \in BOOLEAN : fps_controller_move(grounded, FrameMs)
    \/ client_send_input
    \/ client_sync_players
    \/ predict_entities
    \/ ClientEndFrame

SpecLobby == Init /\ [][NextLobby]_vars

\* SpecGarbage: the server's input path with a client that also sends bytes that
\* are no PlayerInput.
NextGarbage ==
    \/ \E p \in InputIds : ClientConnects(p)
    \/ \E p \in InputIds : ClientDisconnects(p)
    \/ \E p \in InputIds : ClientInput(p, GarbageMaxSerial, GarbageMaxSerial + 1, KeySets)
    \/ \E p \in InputIds : ClientSendsGarbage(p)
    \/ \E p \in InputIds : DeliverInput(p)
    \/ server_update_system
    \/ move_players_system
    \/ \E fired \in BOOLEAN : server_network_sync(fired, GarbageMaxTick)
    \/ ServerEndFrame(FALSE)

SpecGarbage == Init /\ [][NextGarbage]_vars

\* SpecProjectile: the server with its projectiles.  The clients of ProjIds
\* connect and attack; the physics step reports collisions.
ProjIds == 1..ProjPlayers
CastPoints == {<<2, 0>>, <<0, -3>>}

ServerFrame ==
    \/ server_update_system
    \/ move_players_system
    \/ server_network_sync(TRUE, ProjMaxTick)
    \/ update_projectiles_system
    \/ despawn_projectile_system
    \/ EndFrame(FALSE, ServerSystems \cup ProjectileSystems)

NextProjectile ==
    \/ \E p \in ProjIds : ClientConnects(p)
    \/ \E p \in ProjIds : \E cast_at \in CastPoints : ClientAttacks(p, cast_at)
    \/ \E e1, e2 \in 1..ProjMaxEntity : Collide(e1, e2)
    \/ ServerFrame

SpecProjectile == Init /\ [][NextProjectile]_vars

\* every frame of the server runs each of its systems and ends
SpecProjectileFair == SpecProjectile /\ WF_vars(ServerFrame)

\* SpecTables: the client process of Me with a peer that sends any
\* ServerMessages, in any order.
TableEntities == 1..TablesMaxEntity

TableMessages ==
    {PlayerCreate(id, e) : id \in PlayerIds, e \in TableEntities}
        \cup {PlayerRemove(id) : id \in PlayerIds}
        \cup {SpawnProjectile(e) : e \in TableEntities}
        \cup {DespawnProjectile(e) : e \in TableEntities}

\* network_mapping, the lobby, the queued Commands and the entity allocator,
\* as the ServerMessages loop finds them
Tables ==
    [network_mapping |-> network_mapping, lobby |-> client_lobby,
     commands |-> client_commands, next_entity |-> client_next_entity]

\* client.receive_message(ServerChannel::ServerMessages) finds one more message
\* in the next frame.  The client's own PlayerCreate is not repeated while its
\* player exists (one entity is kept for ControlledPlayer).
ReceiveMessage(m) ==
    /\ client_ran = {}
    /\ client_connected
    /\ Len(recv_messages) < TablesMaxBatch
    /\ LET pending == HandleServerMessages(recv_messages, Tables)
       IN /\ (m.kind = "PlayerCreate" /\ m.id = Me) => Me \notin DOMAIN pending.lobby
          /\ m.kind \in {"PlayerCreate", "SpawnProjectile"} =>
                pending.next_entity <= TablesMaxSpawns
    /\ recv_messages' = Append(recv_messages, m)
    /\ UNCHANGED <<netVars, serverVars, serial, net_frame, recv_frame, most_recent_tick,
                   network_mapping, client_next_entity, player, attach_log, input_events,
                   input_reader, client_commands, client_ran, applied_ticks, logVars,
                   moreVars>>

NextTables ==
    \/ ClientConnects(Me)
    \/ \E m \in TableMessages : ReceiveMessage(m)
    \/ fps_controller_input(RightKey, TablesMaxSerial)
    \/ \E grounded \in BOOLEAN : fps_controller_move(grounded, FrameMs)
    \/ client_send_input
    \/ client_sync_players
    \/ predict_entities
    \/ ClientEndFrame

SpecTables == Init /\ [][NextTables]_vars

\* SpecFault: the client process of Me with a connection that may fail and a
\* NetworkFrame channel that may deliver bytes that are no NetworkFrame.
NextFault ==
    \/ ClientConnects(Me)
    \/ TransportFails
    \/ GarbageFrame
    \/ ServerCreatesPlayer
    \/ ServerSendsFrame(FaultMaxTick)
    \/ DeliverFrame
    \/ fps_controller_input(RightKey, FaultMaxSerial)
    \/ \E grounded \in BOOLEAN : fps_controller_move(grounded, FrameMs)
    \/ client_send_input
    \/ client_sync_players
    \/ predict_entities
    \/ panic_on_error_system
    \/ ClientEndFrame

SpecFault == Init /\ [][NextFault]_vars

\* SpecReconcile: one run of client_sync_players on one received NetworkFrame
\* that lists either the controlled entity or the other player's, for any logged
\* positions, translation, velocity and pending command of the controlled
\* player, any last_player_input, translation and velocity of the frame, with
\* and without an earlier frame.
Places == {<<x, 0>> : x \in 0..ReconcileMaxPlace}

\* the controlled player (client entity 1) as earlier frames leave it
ReconcilePlayers ==
    { [NewControlledPlayer(1, hasLog) EXCEPT !.queue = q, !.last_applied_serial = las,
                                             !.pos = DOMAIN lp, !.logpos = lp,
                                             !.translation = tr, !.linvel = Linvel(lv)] :
        q \in {<<>>} \cup {<<FpsControllerInput(ReconcileMaxSerial, k)>> : k \in RightKey},
        las \in 0..ReconcileMaxSerial,
        hasLog \in BOOLEAN,
        lp \in UNION { [keys -> Places] : keys \in SUBSET (1..ReconcileMaxSerial) },
        tr \in Places,
        lv \in {Origin, <<1, 0>>} }

\* a frame of the server (server entity 1 is the controlled player's, server
\* entity 2 the other player's) that lists one of them, or both in either order
\* with different translations and velocities
ReconcileFrames ==
    { [NetworkFrame(t, lpi, <<e>>) EXCEPT !.translations = <<tr>>, !.velocities = <<v>>] :
        e \in 1..2,
        t \in 1..2, lpi \in 0..ReconcileMaxSerial, tr \in Places, v \in {Origin, <<1, 0>>} }
    \cup
    { [NetworkFrame(t, lpi, <<e, 3 - e>>) EXCEPT
            !.translations = <<tr, <<ReconcileMaxPlace - tr[1], 0>> >>,
            !.velocities = <<v, <<1 - v[1], 0>> >>] :
        e \in 1..2,
        t \in 1..2, lpi \in 0..ReconcileMaxSerial, tr \in Places, v \in {Origin, <<1, 0>>} }

InitReconcile ==
    /\ InitCalls
    /\ conn = [p \in PlayerIds |-> IF p \in 1..2 THEN "connected" ELSE "new"]
    /\ server_events = <<>>
    /\ net_input = [p \in PlayerIds |-> <<>>]
    /\ recv_input = [p \in PlayerIds |-> <<>>]
    /\ out_messages = [p \in PlayerIds |-> <<>>]
    /\ client_lobby = [p \in 1..2 |-> [server_entity |-> p, client_entity |-> p]]
    /\ client_world = [ce \in {2} |-> NewAvatar]
    /\ panicked = {}
    /\ renet_error = FALSE
    /\ lobby = [p \in 1..2 |-> p]
    /\ next_entity = 3
    /\ commands = <<>>
    /\ world = [e \in 1..2 |-> NewPlayer(e)]
    /\ tick = 2
    /\ server_ran = {}
    /\ sent = [p \in PlayerIds |-> <<>>]
    /\ sent_ticks = [p \in PlayerIds |-> <<>>]
    /\ serial = [p \in PlayerIds |-> IF p = Me THEN ReconcileMaxSerial + 1 ELSE 0]
    /\ recv_messages = <<>>
    /\ net_frame = {}
    /\ recv_frame \in {<<f>> : f \in ReconcileFrames}
    /\ most_recent_tick \in {None, <<[from_server |-> 1, predicted |-> 1]>>}
    /\ network_mapping = [e \in 1..2 |-> e]
    /\ client_next_entity = 3
    /\ player \in {<<rec>> : rec \in {r \in ReconcilePlayers : r.has_log \/ r.pos = {}}}
    /\ attach_log = player[1].has_log
    /\ input_events = [a |-> <<>>, b |-> <<>>]
    /\ input_reader = 0
    /\ client_commands = <<>>
    /\ client_ran = {}
    /\ applied_ticks = <<>>
    /\ InitLog
    /\ InitEx

SpecReconcile == InitReconcile /\ [][client_sync_players]_vars

\* SpecDiscard: FpsControllerLog::discard on any log with keys up to DiscardMaxKey
\* and any serial.
InitDiscard ==
    /\ InitCalls
    /\ InitNet
    /\ InitServer
    /\ InitClient({FALSE})
    /\ log_before \in SUBSET (0..DiscardMaxKey)
    /\ log_arg \in 0..(DiscardMaxKey + 1)
    /\ log_after = NoLog
    /\ InitEx

NextDiscard ==
    \/ CallDiscard
    \/ CallSyncDiscard

SpecDiscard == InitDiscard /\ [][NextDiscard]_vars

\* SpecFriction: one call of friction() as the Ground arm makes it (lateral_speed
\* is the length of the velocity's x and z), for velocities in every direction,
\* below and above stop_speed, and for frames from 1 ms to a fifth of a second.
FrictionVelocities ==
    { <<x, y, z>> : x \in {0 - 30 * Milli, 0 - 150, 0, 116, 3 * Milli},
                    y \in {0 - 8500, 0, 300},
                    z \in {0 - 4 * Milli, 0, 4 * Milli} } \ { <<0, y, 0>> : y \in {0 - 8500, 0, 300} }

InitFriction ==
    /\ InitNet
    /\ InitServer
    /\ InitClient({FALSE})
    /\ InitLog
    /\ InitEx
    /\ objects = <<>>
    /\ collision_events = <<>>
    /\ recv_command = [p \in PlayerIds |-> <<>>]
    /\ log_trail = <<>>
    /\ acc_run = NoCall
    /\ fr_call \in { [lateral_speed |-> Length(Lateral(v)), friction |-> f,
                       stop_speed |-> FpsControllerDefault.stop_speed, dt |-> dt,
                       velocity |-> v, result |-> <<>>] :
                       v \in FrictionVelocities,
                       f \in {0, FpsControllerDefault.friction},
                       dt \in {1, FrameMs, SlowFrameMs - 1, SlowFrameMs, 2 * SlowFrameMs} }

SpecFriction == InitFriction /\ [][CallFriction]_vars

\* SpecAccelerate: accelerate() called again and again with the same unit
\* wish_dir (along an axis, diagonal in the ground plane, or forward with the
\* look pitched up or down: forward is look_quat(pitch, yaw) * -Z), wish_speed,
\* accel and dt, from rest and from twice wish_speed along wish_dir.  The calls
\* are made for ever.
AccMaxCalls == 44

WishDirs == { <<DirUnit, 0, 0>>, <<0, 0, 0 - DirUnit>>, <<3, 0, 4>>, <<0 - 4, 0, 3>>,
              <<0, 4, 0 - 3>>, <<0, 0 - 3, 0 - 4>> }

\* the velocity of the given speed along a unit vector
Along(d, speed) ==
    <<Trunc(d[1] * speed, DirUnit), Trunc(d[2] * speed, DirUnit), Trunc(d[3] * speed, DirUnit)>>

InitAccelerate ==
    /\ InitNet
    /\ InitServer
    /\ InitClient({FALSE})
    /\ InitLog
    /\ InitEx
    /\ objects = <<>>
    /\ collision_events = <<>>
    /\ recv_command = [p \in PlayerIds |-> <<>>]
    /\ log_trail = <<>>
    /\ fr_call = NoCall
    /\ acc_run \in { [wish_dir |-> d, wish_speed |-> ws, accel |-> a, dt |-> dt,
                       start |-> IF fast THEN Along(d, 2 * ws) ELSE Zero,
                       velocity |-> IF fast THEN Along(d, 2 * ws) ELSE Zero,
                       calls |-> 0] :
                       d \in WishDirs,
                       ws \in {FpsControllerDefault.air_speed_cap,
                               FpsControllerDefault.walk_speed,
                               FpsControllerDefault.run_speed},
                       a \in {FpsControllerDefault.accel,
                              FpsControllerDefault.air_acceleration},
                       dt \in {FrameMs, SlowFrameMs},
                       fast \in BOOLEAN }

SpecAccelerate ==
    /\ InitAccelerate
    /\ [][CallAccelerate(AccMaxCalls)]_vars
    /\ WF_vars(CallAccelerate(AccMaxCalls))

\* SpecDiscardTwice: two discard steps in a row on any log with keys up to
\* DiscardMaxKey, each with any serial and through either of the two loops.
NextDiscardTwice ==
    \/ DiscardStep("discard", 2)
    \/ DiscardStep("sync", 2)

SpecDiscardTwice == InitDiscard /\ [][NextDiscardTwice]_vars

\* SpecMove: the two integrators alone, run once on one entity with any queue of
\* up to MoveMaxSerial commands (the empty queue included): either the server's
\* move_players_system on a player entity, or the client's fps_controller_move
\* on the controlled player in either move mode and at both ends of ground_tick.
QueuesOf(inputs) == UNION { [1..n -> inputs] : n \in 0..MoveMaxSerial }

\* a player entity of the server as server_update_system and earlier runs of
\* move_players_system leave it
MovePlayers ==
    { [NewPlayer(Me) EXCEPT !.queue = q, !.last_applied_serial = las,
                            !.velocity = Direction(k), !.impulse = Direction(k)] :
        q \in QueuesOf({PlayerInput(s, k) : s \in 1..MoveMaxSerial, k \in KeySets}),
        las \in 0..MoveMaxSerial, k \in KeySets }

\* FpsController.velocity of the controlled player: at rest, walking, running
\* backwards while falling, and creeping
MoveVelocities ==
    { Zero, <<FpsControllerDefault.walk_speed, 0, 0>>,
      <<0 - FpsControllerDefault.run_speed, 0 - FpsControllerDefault.jump_speed, 0>>,
      <<FpsControllerDefault.friction_cutoff + FrameMs, 0, 0>> }

\* the controlled player of the client as fps_controller_input and earlier runs
\* of fps_controller_move leave it
MoveControlled ==
    { [NewControlledPlayer(1, hasLog) EXCEPT !.queue = q, !.move_mode = mode,
                                             !.ground_tick = g, !.velocity = v,
                                             !.apply_single = single] :
        q \in {qq \in QueuesOf({FpsControllerInput(s, k) :
                                    s \in 1..MoveMaxSerial,
                                    k \in KeySets \cup FlyKey \cup SprintKey \cup JumpKey
                                              \cup ClimbKey}) :
                  StrictlyIncreasing(Serials(qq))},
        hasLog \in BOOLEAN, single \in BOOLEAN, mode \in {"Ground", "Noclip"},
        g \in {0, 1, U8Max - 1, U8Max},
        v \in MoveVelocities }

InitMove ==
    /\ InitCalls
    /\ InitNet
    /\ lobby = <<>>
    /\ next_entity = 2
    /\ commands = <<>>
    /\ tick = 0
    /\ server_ran = {}
    /\ sent = [p \in PlayerIds |-> <<>>]
    /\ sent_ticks = [p \in PlayerIds |-> <<>>]
    /\ serial = [p \in PlayerIds |-> 0]
    /\ recv_messages = <<>>
    /\ net_frame = {}
    /\ recv_frame = <<>>
    /\ most_recent_tick = None
    /\ network_mapping = <<>>
    /\ client_next_entity = 2
    /\ attach_log = FALSE
    /\ input_events = [a |-> <<>>, b |-> <<>>]
    /\ input_reader = 0
    /\ client_commands = <<>>
    /\ client_ran = {"fps_controller_input"}
    /\ applied_ticks = <<>>
    /\ \/ world \in [{1} -> MovePlayers] /\ player = NoPlayer
       \/ world = <<>> /\ player \in {<<rec>> : rec \in MoveControlled}
    /\ InitLog
    /\ InitEx

NextMove ==
    \/ move_players_system
    \/ \E grounded \in BOOLEAN : \E dt \in {FrameMs, SlowFrameMs} :
            fps_controller_move(grounded, dt)

SpecMove == InitMove /\ [][NextMove]_vars

\* SpecExtrapolate: VelocityExtrapolate::apply for any velocity, base tick, tick
\* up to one second and one tick after the base tick, and base translation.
InitExtrapolate ==
    /\ InitCalls
    /\ InitNet
    /\ InitServer
    /\ InitClient({FALSE})
    /\ InitLog
    /\ ex_in \in [velocity : (0 - ExtrapMaxSpeed)..ExtrapMaxSpeed,
                   base_tick : 0..ExtrapMaxBase,
                   tick : 0..(ExtrapMaxBase + TicksPerSecond + 1),
                   base_translation : {x * TicksPerSecond : x \in 0..ExtrapMaxTranslation}]
    /\ ex_out = <<>>

SpecExtrapolate == InitExtrapolate /\ [][CallApply]_vars

\* ---------------------------------------------------- claims: server
\* the step is a run of the named server system
Ran(system) == system \notin server_ran /\ system \in server_ran'

\* entities that are live before and after the step
Staying == DOMAIN world \cap DOMAIN world'

\* C3: each player's PlayerInputQueue.last_applied_serial never decreases, over
\* any sequence of received Input messages and move_players_system runs.
C3_LastAppliedSerialMonotonic ==
    [][\A e \in Staying :
          world'[e].last_applied_serial >= world[e].last_applied_serial]_vars

RECURSIVE DiscardStale(_)
\* the integrator C5 describes: a command whose serial is <= last_applied_serial
\* is popped without effect
DiscardStale(rec) ==
    IF rec.queue = <<>> THEN rec
    ELSE LET input == Head(rec.queue) IN
        IF input.serial <= rec.last_applied_serial
        THEN DiscardStale([rec EXCEPT !.queue = Tail(rec.queue)])
        ELSE DiscardStale([rec EXCEPT !.queue = Tail(rec.queue),
                                      !.impulse = Direction(input),
                                      !.velocity = Direction(input),
                                      !.last_applied_serial = input.serial])

\* C5: a received command whose serial is <= the entity's last_applied_serial is
\* never applied to the entity's velocity or impulse.  (Stated for entities that
\* have consumed a command with serial >= 1, so that last_applied_serial is the
\* serial of a consumed command and not the default 0.)
C5_StaleInputNeverApplied ==
    [][Ran("move_players_system") =>
         \A e \in Staying :
            world[e].last_applied_serial >= 1 =>
                /\ world'[e].velocity = DiscardStale(world[e]).velocity
                /\ world'[e].impulse = DiscardStale(world[e]).impulse]_vars

C9_TicksIncreasingPerPlayer ==
    \A p \in PlayerIds : StrictlyIncreasing(sent_ticks[p])

\* a player has been sent two frames, another player one
C9_Witness ==
    \E p \in PlayerIds : \E q \in PlayerIds :
        Len(sent_ticks[p]) >= 2 /\ Len(sent_ticks[q]) = 1

\* the frames a broadcast sends when the recipients are the players of Rcpt
BroadcastTo(Rcpt) ==
    \A p \in PlayerIds :
        IF p \in Rcpt
        THEN \E e \in DOMAIN world :
                /\ world[e].id = p
                /\ sent'[p] = << Snapshot(tick, world[e].last_applied_serial,
                                          SortedSeq(DOMAIN world)) >>
        ELSE sent'[p] = <<>>

\* C10 (as claimed): a broadcast sends exactly one NetworkFrame to each connected
\* player (each player of ServerLobby), with the same tick and entity array, and
\* with last_player_input = the recipient's own last_applied_serial.
C10_OneFramePerConnectedPlayer ==
    [][Ran("server_network_sync") /\ sent' # sent => BroadcastTo(DOMAIN lobby)]_vars

\* C10 (amended): a broadcast sends exactly one NetworkFrame to the player of each
\* live player entity and to nobody else.
C10_OneFramePerLivePlayer ==
    [][Ran("server_network_sync") /\ sent' # sent =>
         BroadcastTo({world[e].id : e \in DOMAIN world})]_vars

\* one broadcast reached two players with different last_player_input
C10_Witness ==
    /\ \A p \in PlayerIds : Len(sent[p]) = 1
    /\ \E p \in PlayerIds : \E q \in PlayerIds :
        sent[p][1].last_player_input # sent[q][1].last_player_input

\* ---------------------------------------------------- claims: client
\* the step is a run of the named client system
ClientRan(system) == system \notin client_ran /\ system \in client_ran'

\* C1 (as claimed): the ticks of the frames the client applies, in the order it
\* applies them, are strictly increasing.
C1_AppliedTicksStrictlyIncreasing == StrictlyIncreasing(applied_ticks)

C6_QueueSerialsStrictlyIncreasing ==
    /\ \A e \in DOMAIN world : StrictlyIncreasing(Serials(world[e].queue))
    /\ player # NoPlayer => StrictlyIncreasing(Serials(player[1].queue))

\* C7 (as claimed): the command a step produces is appended to the controlled
\* entity's queue, and it has been sent on the Input channel exactly once by the
\* time the event buffers drop it.
C7_EveryCommandQueuedAndSent ==
    [][/\ ClientRan("fps_controller_input") =>
             /\ player' # NoPlayer
             /\ player'[1].queue # <<>>
             /\ Last(player'[1].queue).serial = serial[Me]
       /\ client_ran = ClientSystems /\ client_ran' = {} =>
             \A i \in 1..Len(input_events.a) :
                Cardinality({j \in 1..Len(net_input[Me]) :
                                net_input[Me][j] = input_events.a[i]}) = 1]_vars

\* C7 (amended): every run of fps_controller_input produces exactly one command,
\* numbered with the serial counter, which it then increments; the command is
\* appended to the controlled entity's queue if that entity exists by then; a
\* run of client_send_input while connected sends every command still in the
\* event buffers that it has not sent before, and no command is sent twice.
C7_OneCommandPerStepSentAtMostOnce ==
    [][/\ ClientRan("fps_controller_input") =>
             \E k \in KeySets :
                LET input == FpsControllerInput(serial[Me], k) IN
                /\ serial'[Me] = serial[Me] + 1
                /\ input_events' = [input_events EXCEPT !.b = Append(@, input)]
                /\ player' = IF player = NoPlayer THEN player
                              ELSE [player EXCEPT ![1].queue = Append(@, input)]
       /\ ClientRan("client_send_input") /\ client_connected =>
             \A ev \in {input_events.a[i] : i \in 1..Len(input_events.a)} \cup
                        {input_events.b[i] : i \in 1..Len(input_events.b)} :
                \E j \in 1..Len(net_input'[Me]) : net_input'[Me][j] = ev
       /\ StrictlyIncreasing(Serials(net_input'[Me]))]_vars

\* the newest command is in the controlled entity's queue and on the wire, after
\* an earlier one
C7_Witness ==
    /\ player # NoPlayer
    /\ player[1].queue # <<>>
    /\ Len(net_input[Me]) >= 2
    /\ Last(net_input[Me]) = Last(player[1].queue)
    /\ Last(net_input[Me]).serial = serial[Me] - 1

\* ---------------------------------------------------- claims: extrapolation
\* C11: apply(tick, t) returns t unchanged whenever tick <= base_tick and
\* t + velocity * (tick - base_tick) / 60 otherwise (so t + velocity one second
\* after the base tick); tick - base_tick is computed only when tick > base_tick,
\* so it never underflows.
C11_ApplyClampsAndExtrapolates ==
    ex_out # <<>> =>
        ex_out[1] = IF ex_in.tick <= ex_in.base_tick
                    THEN ex_in.base_translation
                    ELSE ex_in.base_translation + ex_in.velocity * (ex_in.tick - ex_in.base_tick)

\* apply has run one second after the base tick, and returned t + velocity
C11_Witness ==
    /\ ex_out # <<>>
    /\ ex_in.velocity # 0
    /\ ex_in.tick = ex_in.base_tick + TicksPerSecond
    /\ ex_out[1] = ex_in.base_translation + ex_in.velocity * TicksPerSecond

\* C12: the predicted-tick counter starts at the tick of the last snapshot
\* received, is incremented by exactly 1 by every run of predict_entities whether
\* or not a snapshot arrived, is reset to frame.tick when a newer snapshot is
\* accepted, and is never below from_server.
C12_PredictedTickCounter ==
    [][/\ ClientRan("predict_entities") /\ client_connected /\ most_recent_tick # None =>
             most_recent_tick' = << [from_server |-> most_recent_tick[1].from_server,
                                     predicted |-> most_recent_tick[1].predicted + 1] >>
       /\ /\ ClientRan("client_sync_players")
          /\ most_recent_tick # None
          /\ applied_ticks' # applied_ticks
          => most_recent_tick' = << [from_server |-> Last(applied_ticks'),
                                     predicted |-> Last(applied_ticks')] >>
       /\ most_recent_tick = None /\ most_recent_tick' # None =>
             most_recent_tick' = << [from_server |-> Last(applied_ticks),
                                     predicted |-> Last(applied_ticks)] >>
       /\ most_recent_tick' # None =>
             most_recent_tick'[1].predicted >= most_recent_tick'[1].from_server]_vars

\* the counter has run two steps ahead of the last snapshot
C12_Witness ==
    /\ most_recent_tick # None
    /\ most_recent_tick[1].predicted = most_recent_tick[1].from_server + 2

\* C19: an integrator that finds an entity's queue empty leaves the entity as it
\* was: the server's move_players_system keeps last_applied_serial, velocity and
\* impulse, the client's fps_controller_move keeps last_applied_serial, the move
\* mode, ground_tick and the log.
C19_StarvedIntegratorChangesNothing ==
    [][ /\ Ran("move_players_system") =>
            \A e \in DOMAIN world : world[e].queue = <<>> => world'[e] = world[e]
        /\ (ClientRan("fps_controller_move") /\ player # NoPlayer /\ player[1].queue = <<>>)
            => player' = player ]_vars

\* fps_controller_move ran on a logged player standing on the ground just below
\* the saturation point: consuming a command in Ground mode would have moved
\* ground_tick to 0 or to U8Max
C19_Witness ==
    /\ "fps_controller_move" \in client_ran
    /\ player # NoPlayer
    /\ player[1].has_log
    /\ player[1].queue = <<>>
    /\ player[1].move_mode = "Ground"
    /\ player[1].ground_tick = U8Max - 1

\* ------------------------------------------------ claims: disconnect
\* server_update_system reads ClientDisconnected(id) in this step
Handles(id) ==
    /\ Ran("server_update_system")
    /\ \E i \in 1..Len(server_events) :
          server_events[i] = [kind |-> "ClientDisconnected", id |-> id]

\* the messages queued for client c in this step
Queued(c) == SubSeq(out_messages'[c], Len(out_messages[c]) + 1, Len(out_messages'[c]))

\* the step ends a server frame
EndsFrame == server_ran # {} /\ server_ran' = {}

\* C13: the frame that handles ClientDisconnected(id) removes the lobby entry,
\* queues the despawn of the player's entity (and with it of its queue) and
\* broadcasts PlayerRemove(id); when the frame ends every live entity belongs to
\* a player in the lobby, so no entity or queue is left for a player whose
\* disconnect has been handled.
C13_DisconnectCleanupWithinTheFrame ==
    [][ /\ \A id \in PlayerIds : Handles(id) =>
              /\ id \notin DOMAIN lobby'
              /\ \A e \in DOMAIN world : world[e].id = id =>
                    \E i \in 1..Len(commands') :
                        commands'[i] = [op |-> "despawn", entity |-> e]
              /\ \A c \in PlayerIds : conn[c] = "connected" =>
                    \E i \in 1..Len(Queued(c)) : Queued(c)[i] = PlayerRemove(id)
        /\ EndsFrame =>
              /\ \A e \in DOMAIN world' :
                    /\ world'[e].id \in DOMAIN lobby'
                    /\ lobby'[world'[e].id] = e
              /\ \A id \in PlayerIds :
                    (conn'[id] = "gone" /\ server_events' = <<>>) =>
                        /\ id \notin DOMAIN lobby'
                        /\ \A e \in DOMAIN world' : world'[e].id # id ]_vars

\* a player who had an entity (another client was told of it) is gone, the
\* frame that handled the disconnect has ended, and the other client has been
\* sent PlayerRemove after PlayerCreate
C13_Witness ==
    \E id \in PlayerIds : \E c \in PlayerIds \ {id} :
        /\ conn[id] = "gone"
        /\ conn[c] = "connected"
        /\ server_ran = {}
        /\ server_events = <<>>
        /\ id \notin DOMAIN lobby
        /\ \A e \in DOMAIN world : world[e].id # id
        /\ \E i \in 1..Len(out_messages[c]) : \E j \in (i + 1)..Len(out_messages[c]) :
              /\ out_messages[c][i].kind = "PlayerCreate"
              /\ out_messages[c][i].id = id
              /\ out_messages[c][i].entity < next_entity
              /\ out_messages[c][j] = PlayerRemove(id)

\* the frames passed to send_message for client c in this step
Constructed(c) == SubSeq(sent'[c], Len(sent[c]) + 1, Len(sent'[c]))

\* C14 (as claimed): a NetworkFrame constructed after server_update_system has
\* handled the disconnects, later in the same frame included, lists only
\* entities of players still in the lobby and is addressed to such a player.
C14_NoFrameForRemovedPlayer ==
    [][ (Ran("server_network_sync") /\ "server_update_system" \in server_ran) =>
          \A c \in PlayerIds : \A i \in 1..Len(Constructed(c)) :
              /\ c \in DOMAIN lobby
              /\ \A k \in 1..Len(Constructed(c)[i].entities) :
                    \E id \in DOMAIN lobby : lobby[id] = Constructed(c)[i].entities[k] ]_vars

\* the server has handled every connect and disconnect, all its messages have
\* reached Me, and Me has processed them and applied its Commands
Settled ==
    /\ client_connected
    /\ server_events = <<>>
    /\ server_ran = {}
    /\ out_messages[Me] = <<>>
    /\ recv_messages = <<>>
    /\ client_commands = <<>>
    /\ client_ran = {}

\* Me shows an avatar of player id
Avatar(id) ==
    /\ id \in DOMAIN client_lobby
    /\ client_lobby[id].client_entity \in DOMAIN client_world

\* C15 (as claimed): once a player has disconnected and everything the server
\* sent about it has been processed, no other client shows its avatar, whatever
\* the order of the connects and disconnects.
C15_AvatarGoneAfterDisconnect ==
    \A id \in PlayerIds \ {Me} : (conn[id] = "gone" /\ Settled) => ~Avatar(id)

\* the positions in recv_frame of the frames this run of client_sync_players
\* accepts (the ticks it appends to applied_ticks; a tick is broadcast once)
AcceptedAt ==
    {i \in 1..Len(recv_frame) :
        \E k \in (Len(applied_ticks) + 1)..Len(applied_ticks') :
            applied_ticks'[k] = recv_frame[i].tick}

\* the accepted frames that list a server entity mapped to client entity ce
HitsOf(ce) ==
    {i \in AcceptedAt :
        \E k \in 1..Len(recv_frame[i].entities) :
            /\ recv_frame[i].entities[k] \in DOMAIN network_mapping'
            /\ network_mapping'[recv_frame[i].entities[k]] = ce}

\* C16: in a run of client_sync_players an entry of an accepted frame whose
\* EntityId has no mapping, or whose mapped client entity is not live, changes
\* nothing, and the other entries of the frame are still applied: every live
\* avatar takes the tick of the last accepted frame that lists it and keeps its
\* state if none does; no entity appears or disappears during the run.
C16_UnknownEntryIsSkipped ==
    [][ (ClientRan("client_sync_players") /\ client_connected) =>
          /\ DOMAIN client_world' = DOMAIN client_world
          /\ \A ce \in DOMAIN client_world :
                IF HitsOf(ce) = {} THEN client_world'[ce] = client_world[ce]
                ELSE client_world'[ce].base_tick =
                        recv_frame[CHOOSE i \in HitsOf(ce) : \A j \in HitsOf(ce) : j <= i].tick
          /\ ~attach_log => player' = player ]_vars

\* Me has applied a frame to the avatar of another player while its own entity,
\* which every frame sent to Me lists, had no mapping yet (its PlayerCreate had
\* not been processed)
C16_Witness ==
    /\ "client_sync_players" \in client_ran
    /\ Me \in DOMAIN lobby
    /\ lobby[Me] \notin DOMAIN network_mapping
    /\ applied_ticks # <<>>
    /\ \E ce \in DOMAIN client_world : client_world[ce].base_tick = Last(applied_ticks)

\* --------------------------------------------------- claims: failures
WellFormed(msgs) == SelectSeq(msgs, LAMBDA m : m # Garbage)

\* the messages server_update_system reads for entity e in this step
ReceivedFor(e) ==
    LET from == {c \in PlayerIds :
                    conn[c] = "connected" /\ c \in DOMAIN lobby' /\ lobby'[c] = e}
    IN IF from = {} THEN <<>> ELSE recv_input[CHOOSE c \in from : TRUE]

\* C17 (as claimed): a message that does not deserialize is dropped and the
\* others of the same run are still processed: no step ends a process, and a run
\* of server_update_system pushes the well-formed Input messages it reads.
C17_MalformedMessageIsDropped ==
    [][ /\ ~Dead("server")'
        /\ ~Dead("client")'
        /\ Ran("server_update_system") =>
              \A e \in DOMAIN world :
                  world'[e].queue = world[e].queue \o WellFormed(ReceivedFor(e)) ]_vars

\* C18 (as claimed): a transport failure does not end the process: while the
\* client holds a RenetError and no malformed message, no step kills it.
C18_TransportFailureDoesNotCrash ==
    [][ (renet_error /\ ~Malformed(recv_messages) /\ ~Malformed(recv_frame))
            => ~Dead("client")' ]_vars

\* ------------------------------------------------ claims: reconcile
\* the position in recv_frame of the last accepted frame that lists the
\* controlled entity
LastControlledHit ==
    CHOOSE i \in HitsOf(player[1].entity) : \A j \in HitsOf(player[1].entity) : j <= i

\* C20 (as claimed): when client_sync_players accepts a frame that lists the
\* controlled entity, the commands with serial <= last_player_input leave the
\* queue, and if no later command remains the entity's translation is the
\* frame's translation.
C20_ReconcileResetsToAuthoritative ==
    [][ (/\ ClientRan("client_sync_players")
         /\ player # NoPlayer
         /\ HitsOf(player[1].entity) # {}) =>
          LET f == recv_frame[LastControlledHit]
              k == CHOOSE k \in 1..Len(f.entities) :
                        /\ f.entities[k] \in DOMAIN network_mapping'
                        /\ network_mapping'[f.entities[k]] = player[1].entity
          IN /\ player' # NoPlayer
             /\ \A i \in 1..Len(player'[1].queue) :
                    player'[1].queue[i].serial > f.last_player_input
             /\ (\A i \in 1..Len(player[1].queue) :
                    player[1].queue[i].serial <= f.last_player_input)
                 => player'[1].translation = f.translations[k] ]_vars

\* C21: when client_sync_players accepts frames none of which lists the
\* controlled entity, the entity's translation, Velocity.linvel,
\* last_applied_serial and position log are what they were, and the run does not
\* panic.
C21_AbsentFromSnapshotSkipsReconcile ==
    [][ (/\ ClientRan("client_sync_players")
         /\ player # NoPlayer
         /\ AcceptedAt # {}
         /\ HitsOf(player[1].entity) = {}) =>
            /\ player' # NoPlayer
            /\ player'[1].translation = player[1].translation
            /\ player'[1].linvel = player[1].linvel
            /\ player'[1].last_applied_serial = player[1].last_applied_serial
            /\ player'[1].pos = player[1].pos
            /\ player'[1].logpos = player[1].logpos
            /\ panicked' = panicked ]_vars

\* a frame that lists only the other player's entity has been accepted (the
\* avatar carries its tick) while the controlled player, with a log, was moving,
\* away from the frame's place and behind the frame's last_player_input
C21_Witness ==
    /\ "client_sync_players" \in client_ran
    /\ applied_ticks # <<>>
    /\ 2 \in DOMAIN client_world
    /\ client_world[2].base_tick = Last(applied_ticks)
    /\ player # NoPlayer
    /\ player[1].has_log
    /\ player[1].pos # {}
    /\ player[1].linvel # Zero
    /\ player[1].translation # Origin

\* ------------------------------------------- claims: the controller
\* the run of fps_controller_move found the ground (in Ground mode a command
\* consumed in the air leaves ground_tick at 0)
FoundGround == player' # NoPlayer /\ player'[1].ground_tick >= 1

\* C22: a controlled player in Ground mode, at rest and on the ground, that
\* consumes {serial 1, movement (1, 0, 0)} and then {serial 2, movement
\* (1, 0, 0)} ends with 0 < velocity.x <= walk_speed and last_applied_serial 2.
C22_TwoCommandsFromRest ==
    [][ (/\ ClientRan("fps_controller_move")
         /\ player # NoPlayer
         /\ player[1].has_log
         /\ ~player[1].apply_single
         /\ player[1].move_mode = "Ground"
         /\ player[1].velocity = Zero
         /\ (\E k \in RightKey : player[1].queue = <<FpsControllerInput(1, k), FpsControllerInput(2, k)>>)
         /\ FoundGround) =>
            /\ player'[1].velocity[1] > 0
            /\ player'[1].velocity[1] <= FpsControllerDefault.walk_speed
            /\ player'[1].last_applied_serial = 2 ]_vars

\* the two commands were consumed in one slow frame from rest, the first of
\* them on the first tick on the ground: the second command's friction took all
\* of the speed and its acceleration brought it back to walk_speed
C22_Witness ==
    /\ "fps_controller_move" \in client_ran
    /\ player # NoPlayer
    /\ player[1].has_log
    /\ player[1].move_mode = "Ground"
    /\ player[1].queue = <<>>
    /\ player[1].pos = {1, 2}
    /\ player[1].last_applied_serial = 2
    /\ player[1].ground_tick = 2
    /\ player[1].velocity = <<FpsControllerDefault.walk_speed, 0, 0>>
    /\ player[1].linvel = <<FpsControllerDefault.walk_speed \div 2, 0, 0>>

\* ------------------------------------------- claims: order in a tick
\* the run of server_network_sync built and sent a NetworkFrame
SentFrame == \E c \in PlayerIds : sent'[c] # sent[c]

\* inbound messages of connected clients that server_update_system has not
\* read, and queued commands that move_players_system has not applied
ServerPending ==
    \/ \E c \in PlayerIds : conn[c] = "connected" /\ recv_input[c] # <<>>
    \/ \E e \in DOMAIN world : world[e].queue # <<>>

\* C23 (as claimed): when server_network_sync builds and sends a frame, no
\* received Input message is still unread and no queued command unapplied; when
\* client_send_input sends input, no received ServerMessages or NetworkFrame
\* message is still unread.
C23_InboundDrainedBeforeOutbound ==
    [][ /\ (Ran("server_network_sync") /\ SentFrame) => ~ServerPending
        /\ (ClientRan("client_send_input") /\ net_input'[Me] # net_input[Me]) =>
                recv_messages = <<>> /\ recv_frame = <<>> ]_vars

\* --------------------------------------- claims: discard, repeated
\* C24: a discard step (FpsControllerLog::discard, or the loop of
\* client_sync_players) only removes entries from the front of the log: what it
\* removes lies below everything it keeps; a second step with the same serial
\* removes nothing; and two steps with serials s1 and s2 leave what one step
\* with the larger of the two leaves, the entries with a key >= max(s1, s2).
C24_DiscardIdempotentFromFront ==
    /\ \A i \in 1..Len(log_trail) :
          LET t == log_trail[i] IN
          /\ t.after \subseteq t.before
          /\ \A k \in t.before \ t.after : \A j \in t.after : k < j
    /\ Len(log_trail) = 2 =>
          LET a == log_trail[1]
              b == log_trail[2]
              larger == IF a.arg >= b.arg THEN a.arg ELSE b.arg
          IN /\ a.arg = b.arg => b.after = a.after
             /\ b.after = {k \in a.before : k >= larger}
             /\ b.after = discard(a.before, larger)
             /\ larger \in a.before => b.after = SyncDiscardLoop(a.before, larger)

\* two steps with increasing serials have run, each removed an entry, and an
\* entry is left; the second step went through the loop of client_sync_players
C24_Witness ==
    /\ Len(log_trail) = 2
    /\ log_trail[1].arg < log_trail[2].arg
    /\ log_trail[2].fn = "sync"
    /\ log_trail[1].after # log_trail[1].before
    /\ log_trail[2].after # log_trail[2].before
    /\ log_trail[2].after # {}

\* ------------------------------------ claims: friction and accelerate
Abs(x) == IF x < 0 THEN 0 - x ELSE x

\* C25: for a positive lateral speed and friction * dt < 1, friction() leaves y
\* as it is and scales x and z by one factor in [0, 1]: neither changes sign or
\* grows, the two stay in proportion (up to the rounding of each), and the
\* lateral speed after the call lies in [0, lateral_speed].
C25_FrictionNeverReverses ==
    (/\ fr_call # NoCall
     /\ fr_call.result # <<>>
     /\ fr_call.lateral_speed > 0
     /\ fr_call.friction * fr_call.dt < Milli) =>
        LET v == fr_call.velocity
            r == fr_call.result[1]
        IN /\ r[2] = v[2]
           /\ \A i \in {1, 3} : r[i] * v[i] >= 0 /\ Abs(r[i]) <= Abs(v[i])
           /\ Abs(r[1] * v[3] - r[3] * v[1]) <= Abs(v[1]) + Abs(v[3])
           /\ Length(Lateral(r)) >= 0
           /\ Length(Lateral(r)) <= fr_call.lateral_speed

\* friction() was called with friction * dt < 1 on an entity creeping below
\* stop_speed while falling: the drop is more than the lateral speed, and the
\* call stopped x and z and left y
C25_Witness ==
    /\ fr_call # NoCall
    /\ fr_call.result # <<>>
    /\ fr_call.friction * fr_call.dt < Milli
    /\ fr_call.lateral_speed > 0
    /\ fr_call.lateral_speed < fr_call.stop_speed
    /\ (fr_call.stop_speed * fr_call.friction * fr_call.dt) \div Milli > fr_call.lateral_speed
    /\ fr_call.velocity[2] < 0
    /\ fr_call.result[1] = <<0, fr_call.velocity[2], 0>>

\* the projection of the velocity onto wish_dir, as accelerate() computes it
Projection(velocity) == Trunc(Dot(velocity, acc_run.wish_dir), DirUnit)

\* from rest the projection never exceeds wish_speed, no call lowers it, and a
\* call that finds it at or above wish_speed leaves the velocity as it is
SaturatesFromBelow ==
    /\ [](acc_run.start = Zero => Projection(acc_run.velocity) <= acc_run.wish_speed)
    /\ [][Projection(acc_run'.velocity) >= Projection(acc_run.velocity)]_vars
    /\ [][Projection(acc_run.velocity) >= acc_run.wish_speed =>
            acc_run'.velocity = acc_run.velocity]_vars

\* C26 (as claimed): from rest, repeated calls of accelerate() with the same unit
\* wish direction and wish speed never take the projection above wish_speed,
\* never lower it, and take it to wish_speed after finitely many calls; a call
\* with the projection at or above wish_speed changes nothing.
C26_AccelerationReachesWishSpeed ==
    /\ SaturatesFromBelow
    /\ <>(Projection(acc_run.velocity) >= acc_run.wish_speed)

\* the clients whose Input messages server_update_system reads in this step
InputSenders == {c \in PlayerIds : conn[c] = "connected" /\ recv_input[c] # <<>>}

\* the entity the lobby maps c to when the Input loop runs (the events of the
\* run have been handled by then), or None
QueueOf(c) ==
    IF c \in DOMAIN lobby' /\ lobby'[c] \in DOMAIN world THEN <<lobby'[c]>> ELSE None

\* C27: the Input messages received from client c go to the back of the queue of
\* the entity the lobby maps c to, in the order received and whatever their
\* serials, and to no other queue; with no lobby entry or no live entity they
\* change no queue and raise no error; move_players_system consumes a queue from
\* its front, so that the last command queued is the last one applied
C27_InputAppendedToOwnQueue ==
    [][/\ Ran("server_update_system") =>
            /\ \A c \in InputSenders :
                /\ recv_input'[c] = <<>>
                /\ QueueOf(c) # None =>
                        world'[QueueOf(c)[1]].queue =
                            world[QueueOf(c)[1]].queue \o recv_input[c]
            /\ \A e \in DOMAIN world :
                (\A c \in InputSenders : QueueOf(c) # <<e>>) =>
                        world'[e].queue = world[e].queue
            /\ DOMAIN world' = DOMAIN world
            /\ panicked' = panicked
       /\ Ran("move_players_system") =>
            \A e \in DOMAIN world :
                /\ world'[e].queue = <<>>
                /\ world[e].queue # <<>> =>
                    /\ world'[e].last_applied_serial = Last(world[e].queue).serial
                    /\ world'[e].velocity = Direction(Last(world[e].queue))
                /\ world[e].queue = <<>> =>
                    world'[e].last_applied_serial = world[e].last_applied_serial]_vars

\* two players are live; one's queue holds two commands with the later serial in
\* front, the other's queue is empty
C27_Witness ==
    \E e1, e2 \in DOMAIN world :
        /\ e1 # e2
        /\ Len(world[e1].queue) = 2
        /\ world[e1].queue[1].serial > world[e1].queue[2].serial
        /\ world[e2].queue = <<>>

\* the serials fps_controller_move logs in this step: those of the commands it
\* consumes
Consumed == player'[1].pos \ player[1].pos

\* C28: a run of fps_controller_move on an entity its query matches pops from the
\* front of the queue.  With apply_single unset it leaves the queue empty, has
\* consumed every queued command, and last_applied_serial is the serial of the
\* last one queued; with apply_single set it consumes the front command alone,
\* last_applied_serial is that command's serial, and the rest stays queued in
\* order.  A run on an empty queue changes neither.  move_players_system does to
\* every player's queue what the run with apply_single unset does.
C28_QueueConsumedFromFront ==
    [][/\ ("fps_controller_move" \in client_ran' /\ "fps_controller_move" \notin client_ran
            /\ player # NoPlayer /\ player[1].has_log) =>
            LET rec == player[1]
                after == player'[1]
            IN /\ rec.queue = <<>> =>
                    /\ after.queue = <<>>
                    /\ after.last_applied_serial = rec.last_applied_serial
                    /\ Consumed = {}
               /\ (rec.queue # <<>> /\ ~rec.apply_single) =>
                    /\ after.queue = <<>>
                    /\ after.last_applied_serial = Last(rec.queue).serial
                    /\ Consumed = {rec.queue[i].serial : i \in 1..Len(rec.queue)}
               /\ (rec.queue # <<>> /\ rec.apply_single) =>
                    /\ after.queue = Tail(rec.queue)
                    /\ after.last_applied_serial = Head(rec.queue).serial
                    /\ Consumed = {Head(rec.queue).serial}
       /\ Ran("move_players_system") =>
            \A e \in DOMAIN world :
                /\ world'[e].queue = <<>>
                /\ world'[e].last_applied_serial =
                        IF world[e].queue = <<>> THEN world[e].last_applied_serial
                        ELSE Last(world[e].queue).serial]_vars

\* a run with apply_single set has consumed the first of two commands and left
\* the second queued
C28_Witness ==
    /\ "fps_controller_move" \in client_ran
    /\ player # NoPlayer
    /\ player[1].has_log
    /\ player[1].apply_single
    /\ player[1].pos = {1}
    /\ player[1].last_applied_serial = 1
    /\ Serials(player[1].queue) = <<2>>

\* a run of fps_controller_move that consumes exactly one command, which carries
\* no fly, in Ground mode
OneGroundCommand ==
    /\ ClientRan("fps_controller_move")
    /\ player # NoPlayer
    /\ player[1].has_log
    /\ player[1].move_mode = "Ground"
    /\ player[1].queue # <<>>
    /\ ~Head(player[1].queue).fly
    /\ (player[1].apply_single \/ Len(player[1].queue) = 1)

\* the lateral velocity b is a's scaled down by friction (strictly, if a moves)
Slowed(a, b) ==
    \A i \in {1, 3} :
        /\ Abs(b[i]) <= Abs(a[i])
        /\ a[i] * b[i] >= 0
        /\ a[i] # 0 => Abs(b[i]) < Abs(a[i])

\* C29: a command consumed in Ground mode either finds no ground (ground_tick
\* becomes 0 and gravity pulls the vertical velocity down) or finds it
\* (ground_tick grows by 1, staying at 255 once there).  On the ground friction
\* and the zeroing of the vertical velocity happen exactly when ground_tick was
\* >= 1 before the command: with ground_tick 0 a command without jump leaves the
\* vertical velocity alone, and one without movement leaves all of the velocity
\* alone; with ground_tick >= 1 the vertical velocity becomes 0 and a command
\* without movement slows the lateral velocity down.
C29_GroundTickCountsContact ==
    [][OneGroundCommand =>
        LET rec == player[1]
            after == player'[1]
            input == Head(rec.queue)
            g == rec.ground_tick
        IN \/ /\ after.ground_tick = 0
              /\ after.velocity[2] < rec.velocity[2]
           \/ /\ after.ground_tick = IF g < U8Max THEN g + 1 ELSE U8Max
              /\ (g = 0 /\ ~input.jump) =>
                    /\ after.velocity[2] = rec.velocity[2]
                    /\ input.movement = Zero => after.velocity = rec.velocity
              /\ (g >= 1 /\ ~input.jump) =>
                    /\ after.velocity[2] = 0
                    /\ input.movement = Zero => Slowed(rec.velocity, after.velocity)]_vars

\* the first command on the ground (ground_tick 0 before it) was consumed and
\* the player still runs backwards and falls as before: no friction, vertical
\* velocity not zeroed
C29_Witness ==
    /\ "fps_controller_move" \in client_ran
    /\ player # NoPlayer
    /\ player[1].has_log
    /\ player[1].move_mode = "Ground"
    /\ player[1].pos = {1}
    /\ player[1].ground_tick = 1
    /\ player[1].velocity = <<0 - FpsControllerDefault.run_speed,
                              0 - FpsControllerDefault.jump_speed, 0>>

\* a run of fps_controller_move on an entity its query matches, with commands
\* to consume
MoveRuns ==
    /\ ClientRan("fps_controller_move")
    /\ player # NoPlayer
    /\ player[1].has_log
    /\ player[1].queue # <<>>

\* b points where a points
Parallel(a, b) ==
    /\ \A i, j \in 1..3 : a[i] * b[j] = a[j] * b[i]
    /\ \A i \in 1..3 : a[i] * b[i] >= 0

\* C30: a consumed command with fly flips move_mode between Ground and Noclip,
\* one without fly keeps it, and two with fly in a row restore it.  A command
\* handled in Noclip (the mode after its own flip) leaves ground_tick alone and
\* applies no gravity: without movement the velocity is scaled by
\* 1 - fly_friction, with movement it points along the movement and has length
\* fly_speed, or fast_fly_speed with sprint.
C30_FlyTogglesNoclip ==
    [][MoveRuns =>
        LET rec == player[1]
            after == player'[1]
            input == Head(rec.queue)
            c == FpsControllerDefault
            one == rec.apply_single \/ Len(rec.queue) = 1
            speed == IF input.sprint THEN c.fast_fly_speed ELSE c.fly_speed
        IN /\ (one /\ input.fly) => after.move_mode # rec.move_mode
           /\ (one /\ ~input.fly) => after.move_mode = rec.move_mode
           /\ (~one /\ Len(rec.queue) = 2 /\ input.fly /\ rec.queue[2].fly) =>
                    after.move_mode = rec.move_mode
           /\ (\A i \in 1..Len(rec.queue) : ~rec.queue[i].fly) =>
                    after.move_mode = rec.move_mode
           /\ (one /\ after.move_mode = "Noclip") =>
                /\ after.ground_tick = rec.ground_tick
                /\ input.movement = Zero =>
                    after.velocity =
                        [i \in 1..3 |-> Trunc(rec.velocity[i] * (Milli - c.fly_friction), Milli)]
                /\ input.movement # Zero =>
                    /\ Parallel(input.movement, after.velocity)
                    /\ Length(after.velocity) \in (speed - 2)..speed]_vars

\* a command with the right and up keys was handled in Noclip: the player flies
\* diagonally at fly_speed
C30_Witness ==
    /\ "fps_controller_move" \in client_ran
    /\ player # NoPlayer
    /\ player[1].has_log
    /\ player[1].move_mode = "Noclip"
    /\ player[1].pos = {1}
    /\ player[1].velocity[1] = player[1].velocity[2]
    /\ player[1].velocity[1] > 0
    /\ player[1].velocity[3] = 0

\* ------------------------------------------- claims: the other players
\* the entries (frame, index) of the accepted frames that are mapped to client
\* entity ce, in the order the run reads them
EntryHits(ce) ==
    {h \in AcceptedAt \X (1..MaxPlayers) :
        /\ h[2] <= Len(recv_frame[h[1]].entities)
        /\ recv_frame[h[1]].entities[h[2]] \in DOMAIN network_mapping'
        /\ network_mapping'[recv_frame[h[1]].entities[h[2]]] = ce}

LastEntryHit(ce) ==
    CHOOSE h \in EntryHits(ce) :
        \A g \in EntryHits(ce) : g[1] < h[1] \/ (g[1] = h[1] /\ g[2] <= h[2])

\* C31: a run of client_sync_players leaves every live entity that is not the
\* controlled one with the data of the last accepted entry mapped to it:
\* transform and TransformFromServer are the entry's translation, base_tick is
\* the frame's tick and velocity is the velocity at the entry's own index; an
\* entity that no accepted frame lists keeps its state.
C31_SnapshotRefreshesExtrapolation ==
    [][ (ClientRan("client_sync_players") /\ client_connected) =>
          \A ce \in DOMAIN client_world :
            IF EntryHits(ce) = {} THEN client_world'[ce] = client_world[ce]
            ELSE LET f == recv_frame[LastEntryHit(ce)[1]]
                     i == LastEntryHit(ce)[2]
                 IN /\ client_world'[ce].base_tick = f.tick
                    /\ client_world'[ce].velocity = f.velocities[i]
                    /\ client_world'[ce].translation = Sixtieths(f.translations[i])
                    /\ client_world'[ce].from_server = Sixtieths(f.translations[i]) ]_vars

\* a frame that lists the other player, moving and away from the origin, has
\* been applied: the avatar carries the entry's translation and velocity and
\* the frame's tick
C31_Witness ==
    /\ "client_sync_players" \in client_ran
    /\ applied_ticks # <<>>
    /\ \E ce \in DOMAIN client_world :
        /\ client_world[ce].base_tick = Last(applied_ticks)
        /\ client_world[ce].velocity = <<1, 0>>
        /\ client_world[ce].from_server = Sixtieths(<<ReconcileMaxPlace, 0>>)
        /\ client_world[ce].translation = client_world[ce].from_server

\* ------------------------------------------- claims: acknowledgement
\* C32 (as claimed): the last_player_input of every NetworkFrame constructed for
\* player p is the serial of a command that p's entity has consumed.
C32_AcknowledgesOnlyConsumedSerials ==
    [][\A p \in PlayerIds :
        \A i \in 1..Len(Constructed(p)) :
            \E e \in DOMAIN world :
                /\ world[e].id = p
                /\ Constructed(p)[i].last_player_input \in world[e].consumed]_vars

\* ------------------------------------------- claims: announcing the players
\* the positions of the PlayerCreate messages for player q among the messages
\* the server has sent to client c
CreatesFor(c, q) ==
    {i \in 1..Len(out_messages[c]) :
        /\ out_messages[c][i].kind = "PlayerCreate"
        /\ out_messages[c][i].id = q}

\* C33: once the server has handled the connects and disconnects it received,
\* every connected client has been sent exactly one PlayerCreate for every
\* player of the lobby, itself included, and never two for the same player.
C33_PlayerCreateExactlyOnce ==
    \A c \in PlayerIds :
        (conn[c] = "connected" /\ c \in DOMAIN lobby /\ server_events = <<>>) =>
            /\ \A q \in DOMAIN lobby : Cardinality(CreatesFor(c, q)) = 1
            /\ \A q \in PlayerIds : Cardinality(CreatesFor(c, q)) <= 1

\* two connects were handled in one run of server_update_system: neither
\* player entity is spawned yet and each client holds one PlayerCreate for
\* itself and one for the other
C33_Witness ==
    /\ "server_update_system" \in server_ran
    /\ server_events = <<>>
    /\ DOMAIN world = {}
    /\ DOMAIN lobby = TickIds
    /\ Cardinality(TickIds) >= 2
    /\ \A c \in TickIds : conn[c] = "connected"
    /\ \A c \in TickIds : \A q \in TickIds : Cardinality(CreatesFor(c, q)) = 1

\* ------------------------------------------- claims: the client's tables
\* the client's entities once the queued Commands are applied
AfterCommands ==
    ApplyClientCommands(client_commands,
                        [mrt |-> most_recent_tick, player |-> player, world |-> client_world])

\* the client entities spawned for a PlayerCreate
Avatars ==
    {ce \in DOMAIN AfterCommands.world : AfterCommands.world[ce].object = "player"}
        \cup {AfterCommands.player[i].entity : i \in 1..Len(AfterCommands.player)}

\* every lobby entry's server entity is mapped to the entry's client entity, no
\* two server entities are mapped to one client entity, and every avatar is the
\* client entity of exactly one lobby entry
TablesConsistent ==
    /\ \A id \in DOMAIN client_lobby :
        /\ client_lobby[id].server_entity \in DOMAIN network_mapping
        /\ network_mapping[client_lobby[id].server_entity] = client_lobby[id].client_entity
    /\ \A a, b \in DOMAIN network_mapping :
        a # b => network_mapping[a] # network_mapping[b]
    /\ \A ce \in Avatars :
        Cardinality({id \in DOMAIN client_lobby : client_lobby[id].client_entity = ce}) = 1

\* the server entities of the players of a lobby
PlayerEntities(lb) == {lb[id].server_entity : id \in DOMAIN lb}

RECURSIVE Orderly(_, _)
\* every PlayerCreate names a player the lobby does not hold and a server entity
\* that is no player's, and no projectile message names a player's server entity
Orderly(msgs, st) ==
    IF msgs = <<>> THEN TRUE
    ELSE LET m == Head(msgs) IN
        /\ m.kind = "PlayerCreate" =>
            /\ m.id \notin DOMAIN st.lobby
            /\ m.entity \notin PlayerEntities(st.lobby)
        /\ m.kind \in {"SpawnProjectile", "DespawnProjectile"} =>
            m.entity \notin PlayerEntities(st.lobby)
        /\ Orderly(Tail(msgs), HandleServerMessages(<<m>>, st))

\* C34 (as claimed): after any sequence of messages the tables are consistent.
C34_TablesConsistentAfterAnySequence == TablesConsistent

\* C34 (amended): client_sync_players keeps the tables consistent when the
\* messages it handles are orderly, and no other step of the client breaks them.
C34_TablesConsistentAfterOrderlyMessages ==
    [][(/\ TablesConsistent
        /\ "client_sync_players" \in client_ran' \ client_ran =>
                Orderly(recv_messages, Tables))
       => TablesConsistent']_vars

\* both players were created, the other one removed and a projectile spawned:
\* the Commands are applied, the controlled player and the projectile are the
\* client's entities and the tables hold exactly them
C34_Witness ==
    /\ "client_sync_players" \in client_ran
    /\ client_commands = <<>>
    /\ client_next_entity = TablesMaxSpawns + 1
    /\ TablesConsistent
    /\ DOMAIN client_lobby = {Me}
    /\ player # NoPlayer
    /\ Cardinality(DOMAIN network_mapping) = 2
    /\ \E ce \in DOMAIN client_world : client_world[ce].object = "projectile"
    /\ Avatars = {player[1].entity}

\* ------------------------------------------- claims: the client's input queue
\* the command of serial s waits in the controlled entity's input queue
InQueue(s) ==
    /\ player # NoPlayer
    /\ \E i \in 1..Len(player[1].queue) : player[1].queue[i].serial = s

\* C35 (as claimed): every command pushed to the controlled entity's
\* FpsControllerInputQueue is eventually popped.
C35_QueuedCommandIsPopped ==
    \A s \in 0..ClientMaxSerial : InQueue(s) ~> ~InQueue(s)

\* ------------------------------------------- claims: the correction branch
\* frame i, accepted in this run, lists the controlled entity at index k, the
\* position log holds the frame's last_player_input, the logged position is
\* further than the threshold from the entry's translation and the entry's
\* velocity is below the threshold
CorrectionCase(i, k) ==
    LET f == recv_frame[i] IN
    /\ i \in HitsOf(player[1].entity)
    /\ f.entities[k] \in DOMAIN network_mapping'
    /\ network_mapping'[f.entities[k]] = player[1].entity
    /\ f.last_player_input \in player[1].pos
    /\ LengthSquared(Minus(player[1].logpos[f.last_player_input], f.translations[k]))
            > CorrectionThreshold * CorrectionThreshold
    /\ f.velocities[k] = Origin

\* C36: a run of client_sync_players leaves the controlled entity's translation
\* as it was unless a frame it accepted is a correction case, and then the
\* translation is that entry's; when the only frame is a correction case the
\* translation is overwritten.
C36_SnapshotMovesControlledOnlyByCorrection ==
    [][ (/\ ClientRan("client_sync_players")
         /\ player # NoPlayer
         /\ player' # NoPlayer) =>
          LET cases == {c \in (1..Len(recv_frame)) \X (1..2) :
                            /\ c[2] <= Len(recv_frame[c[1]].entities)
                            /\ CorrectionCase(c[1], c[2])}
          IN /\ \/ player'[1].translation = player[1].translation
                \/ \E c \in cases : player'[1].translation = recv_frame[c[1]].translations[c[2]]
             /\ (Len(recv_frame) = 1 /\ cases # {}) =>
                    \E c \in cases :
                        player'[1].translation = recv_frame[c[1]].translations[c[2]] ]_vars

\* after a run that accepted a frame, the controlled entity stands still at a
\* place further than the threshold from the position logged for the
\* acknowledged serial: the snapshot's place after a correction
C36_Witness ==
    /\ "client_sync_players" \in client_ran
    /\ applied_ticks # <<>>
    /\ player # NoPlayer
    /\ player[1].has_log
    /\ player[1].linvel = Zero
    /\ player[1].last_applied_serial \in player[1].pos
    /\ LengthSquared(Minus(player[1].logpos[player[1].last_applied_serial],
                           player[1].translation))
            > CorrectionThreshold * CorrectionThreshold

\* ------------------------------------------- claims: the controlled entity
RECURSIVE ControlledAfter(_, _)
\* the entities tagged ControlledPlayer once the Commands cmds are applied to a
\* client whose tagged entities are S
ControlledAfter(cmds, S) ==
    IF cmds = <<>> THEN S
    ELSE LET c == Head(cmds) IN
        ControlledAfter(Tail(cmds),
            IF c.op = "spawn" /\ c.controlled THEN S \cup {c.entity}
            ELSE IF c.op = "despawn" THEN S \ {c.entity}
            ELSE S)

ControlledEntities ==
    ControlledAfter(client_commands, {player[i].entity : i \in 1..Len(player)})

\* C37: at most one entity is tagged ControlledPlayer, it is the client entity
\* of the lobby entry of the client's own id, it is not among the entities with
\* VelocityExtrapolate, and a run of predict_entities leaves it as it was.
C37_ControlledEntityIsNotExtrapolated ==
    [][ /\ Cardinality(ControlledEntities') <= 1
        /\ \A ce \in ControlledEntities' :
            /\ Me \in DOMAIN client_lobby'
            /\ client_lobby'[Me].client_entity = ce
            /\ ce \notin DOMAIN client_world'
        /\ ClientRan("predict_entities") => player' = player ]_vars

\* predict_entities has written the transform of another player's avatar while
\* the controlled entity exists
C37_Witness ==
    /\ "predict_entities" \in client_ran
    /\ most_recent_tick # None
    /\ player # NoPlayer
    /\ ControlledEntities = {player[1].entity}
    /\ \E ce \in DOMAIN client_world :
        /\ client_world[ce].object = "player"
        /\ client_world[ce].base_tick >= 1

\* ------------------------------------------- claims: the arrays of a frame
\* the entity arrays of frame f, one after the other
Listed(f) == f.entities \o f.with_rotation.entities

\* index i of the arrays of a set describes the entity at index i: a player
\* with its PlayerVelocity, a projectile or a cube with its Transform and Velocity
DescribesEntity(e, translation, velocity) ==
    \/ /\ e \in DOMAIN world
       /\ translation = Origin
       /\ velocity = world[e].velocity
    \/ /\ e \in DOMAIN objects
       /\ translation = objects[e].translation
       /\ velocity = objects[e].velocity

\* C38: in every NetworkFrame server_network_sync builds, the arrays of each
\* set are equally long, index i of the arrays of a set describes the live
\* entity the set lists at i, and no entity is listed twice.
C38_FrameArraysAreParallel ==
    [][\A c \in PlayerIds :
        \A n \in 1..Len(Constructed(c)) :
            LET f == Constructed(c)[n]
                r == f.with_rotation
            IN /\ Len(f.translations) = Len(f.entities)
               /\ Len(f.velocities) = Len(f.entities)
               /\ Len(r.translations) = Len(r.entities)
               /\ Len(r.velocities) = Len(r.entities)
               /\ Len(r.rotations) = Len(r.entities)
               /\ \A i \in 1..Len(f.entities) :
                    DescribesEntity(f.entities[i], f.translations[i], f.velocities[i])
               /\ \A i \in 1..Len(r.entities) :
                    DescribesEntity(r.entities[i], r.translations[i], r.velocities[i])
               /\ \A i, j \in 1..Len(Listed(f)) :
                    i # j => Listed(f)[i] # Listed(f)[j] ]_vars

\* a frame that lists a player and two fireballs flying in different
\* directions from different places has been sent
C38_Witness ==
    \E c \in PlayerIds :
        /\ sent[c] # <<>>
        /\ LET f == Last(sent[c]) IN
            /\ Len(f.entities) = 3
            /\ f.entities[1] \in DOMAIN world
            /\ {f.entities[2], f.entities[3]} \subseteq DOMAIN objects
            /\ f.velocities[2] # f.velocities[3]
            /\ f.translations[2] # f.translations[3]
            /\ Len(f.translations) = 3

\* ------------------------------------------- claims: the life of a projectile
\* the positions of the messages of a kind about server entity e among the
\* messages sent to client c
About(c, kind, e) ==
    {i \in 1..Len(out_messages[c]) :
        /\ out_messages[c][i].kind = kind
        /\ out_messages[c][i].entity = e}

\* the commands of op for entity e among the queued Commands
Requests(op, e) ==
    {i \in 1..Len(commands) : commands[i].op = op /\ commands[i].entity = e}

RECURSIVE SumOf(_, _)
SumOf(f, S) == IF S = {} THEN 0 ELSE f[Min(S)] + SumOf(f, S \ {Min(S)})

\* the BasicAttacks this run of server_update_system reads from clients whose
\* player entity is live
LiveAttacks ==
    SumOf([c \in PlayerIds |-> Len(recv_command[c])],
          {c \in PlayerIds : /\ conn[c] = "connected"
                             /\ c \in DOMAIN lobby'
                             /\ lobby'[c] \in DOMAIN world})

\* C39: a spawned projectile is eventually despawned and a client that was
\* told of its spawn is eventually told of its despawn; no client is sent two
\* DespawnProjectile for one entity; a run of server_update_system queues one
\* fireball and broadcasts one SpawnProjectile for each BasicAttack of a client
\* with a live player entity, and none for the other attacks.
C39_ProjectileDespawnedAndAnnouncedOnce ==
    /\ \A e \in 1..ProjMaxEntity : (e \in DOMAIN objects) ~> (e \notin DOMAIN objects)
    /\ \A e \in 1..ProjMaxEntity : \A c \in ProjIds :
            (About(c, "SpawnProjectile", e) # {}) ~> (About(c, "DespawnProjectile", e) # {})
    /\ [](\A e \in 1..ProjMaxEntity : \A c \in PlayerIds :
            Cardinality(About(c, "DespawnProjectile", e)) <= 1)
    /\ [][Ran("server_update_system") =>
            /\ Cardinality({i \in (Len(commands) + 1)..Len(commands') :
                                commands'[i].op = "spawn_fireball"}) = LiveAttacks
            /\ \A c \in PlayerIds :
                conn[c] = "connected" =>
                    Cardinality({i \in 1..Len(Queued(c)) :
                                    Queued(c)[i].kind = "SpawnProjectile"}) = LiveAttacks]_vars

\* the duration of a fireball has run out in the frame in which it collided
\* twice: three despawns of the entity are queued, and the client has been told
\* of its spawn and not yet of its despawn
C39_Witness ==
    \E e \in DOMAIN objects : \E c \in ProjIds :
        /\ Finished(objects[e].timer)
        /\ Cardinality(Requests("despawn", e)) >= 3
        /\ About(c, "SpawnProjectile", e) # {}
        /\ About(c, "DespawnProjectile", e) = {}

====
